---- MODULE Spec2Model ----
(***************************************************************************)
(* LoopSubdivision (three-subdivide): modify, edgeSplit, flat and smooth   *)
(* over three.js BufferGeometry objects, as a state machine over a heap of *)
(* geometries.                                                             *)
(*                                                                         *)
(* Numbers.  A JavaScript number v is held as the integer v * Unit (fixed  *)
(* point, Unit = 2^17).  Sums, halves and the dyadic weights are exact;    *)
(* where a product or quotient is not, the model rounds it in fixed point. *)
(* NaN is the value a Float32Array stores for undefined.                   *)
(*                                                                         *)
(* State.  heap: the geometry objects, by id (the input is heap[1]);       *)
(* pc: "idle" before the call, "done" after; op and arg: the method called *)
(* and its arguments; result: the id returned; log: the passes, copies and *)
(* dispose() calls made; input0: the input as it was before the call.      *)
(***************************************************************************)
EXTENDS Integers, Naturals, Sequences, FiniteSets, TLC

VARIABLES heap, pc, op, arg, result, log, input0

(* The module-level scratch objects (lines 66-89) as a walk through the     *)
(* statements that touch them.  line: the source line about to execute (0  *)
(* between calls); assigned: the components written since the pass was     *)
(* entered; itemStep: itemSize of the attribute being built; vIndex: the   *)
(* counter of the `for (let v = 0; v < 3; v++)` loops; returnTo: where the *)
(* flat() that smooth calls returns to; entered: the passes entered so far.*)
VARIABLES line, assigned, itemStep, vIndex, returnTo, entered

scratch == <<line, assigned, itemStep, vIndex, returnTo, entered>>

vars == <<heap, pc, op, arg, result, log, input0, scratch>>

-----------------------------------------------------------------------------
(* Bounds of the model *)

MaxTris == 2
MaxIter == 2

-----------------------------------------------------------------------------
(* Numbers *)

\* one, in fixed point
Unit == 2^17

\* the grid of the input coordinates: 1/256
GridUnit == Unit \div 256

\* the value a Float32Array holds for undefined
NaN == -(2^30)

\* maxTriangles = Infinity: above every triangle count of the model
Infinity == 1000000

POSITION_DECIMALS == 2

IsNaN(x) == x = NaN

Add(a, b) == IF IsNaN(a) \/ IsNaN(b) THEN NaN ELSE a + b

Sub(a, b) == IF IsNaN(a) \/ IsNaN(b) THEN NaN ELSE a - b

\* x / 2.0
Half(a) == IF IsNaN(a) THEN NaN ELSE a \div 2

\* x * (num / den), rounded to the nearest multiple of 1/Unit
MulQ(a, num, den) ==
    IF IsNaN(a) THEN NaN ELSE (2 * a * num + den) \div (2 * den)

Abs(x) == IF x < 0 THEN -x ELSE x

RECURSIVE Gcd(_, _)
Gcd(a, b) == IF b = 0 THEN a ELSE Gcd(b, a % b)

RECURSIVE IsqrtIn(_, _, _)
IsqrtIn(lo, hi, s) ==
    IF lo >= hi THEN lo
    ELSE LET mid == (lo + hi + 1) \div 2
         IN IF mid * mid <= s THEN IsqrtIn(mid, hi, s) ELSE IsqrtIn(lo, mid - 1, s)

\* floor(sqrt(s)), 0 <= s < 2^30
Isqrt(s) == IsqrtIn(0, 32767, s)

RECURSIVE Pow10(_)
Pow10(n) == IF n = 0 THEN 1 ELSE 10 * Pow10(n - 1)

-----------------------------------------------------------------------------
(* Vector3: <<x, y, z>> *)

VAdd(a, b) == <<Add(a[1], b[1]), Add(a[2], b[2]), Add(a[3], b[3])>>

VSub(a, b) == <<Sub(a[1], b[1]), Sub(a[2], b[2]), Sub(a[3], b[3])>>

VHalf(a) == <<Half(a[1]), Half(a[2]), Half(a[3])>>

VMulQ(a, num, den) == <<MulQ(a[1], num, den), MulQ(a[2], num, den), MulQ(a[3], num, den)>>

\* copy(a).add(b).divideScalar(2.0)
Midpoint(a, b) == VHalf(VAdd(a, b))

Cross(a, b) ==
    << a[2] * b[3] - a[3] * b[2],
       a[3] * b[1] - a[1] * b[3],
       a[1] * b[2] - a[2] * b[1] >>

Dot(a, b) == a[1] * b[1] + a[2] * b[2] + a[3] * b[3]

\* A position in grid units (1/256): the geometric predicates of edgeSplit and
\* computeVertexNormals run on input meshes, whose coordinates are multiples
\* of GridUnit, and their products would not fit 32 bits in units of 1/Unit.
Grid(v) == << v[1] \div GridUnit, v[2] \div GridUnit, v[3] \div GridUnit >>

\* Vector3.normalize(): c / (|c| or 1), in units of 1/Unit.
Normalize(c) ==
    LET g == Gcd(Gcd(Abs(c[1]), Abs(c[2])), Abs(c[3]))
    IN IF g = 0 THEN <<0, 0, 0>>
       ELSE LET r  == << c[1] \div g, c[2] \div g, c[3] \div g >>
                s  == Dot(r, r)
                l1 == Isqrt(s)
            IN IF l1 * l1 = s
               THEN << (r[1] * Unit) \div l1, (r[2] * Unit) \div l1, (r[3] * Unit) \div l1 >>
               ELSE LET l256 == Isqrt(s * 65536)
                    IN << (r[1] * Unit * 256) \div l256,
                          (r[2] * Unit * 256) \div l256,
                          (r[3] * Unit * 256) \div l256 >>

-----------------------------------------------------------------------------
(* Local Functions, Hash *)

\* (x + ((x > 0) ? 0.5 : -0.5)) << 0, for x = num * shift with num = n / Unit
round(n, shift) ==
    IF IsNaN(n) THEN 0
    ELSE IF n > 0 THEN (2 * shift * n + Unit) \div (2 * Unit)
         ELSE -((Unit - 2 * shift * n) \div (2 * Unit))

_positionShift == Pow10(POSITION_DECIMALS)

hashFromNumber(num) == round(num, _positionShift)

\* the string "x,y,z" of the three rounded numbers, as a tuple
hashFromVector(v) == << hashFromNumber(v[1]), hashFromNumber(v[2]), hashFromNumber(v[3]) >>

\* fuzzy(triangleSize, 0) for the area of the triangle (a, b, c): the area is
\* |cross| / 2 and cross is in units of 1/256^2, so area < 0.00001 iff
\* |cross|^2 < (0.00002 * 65536)^2 = 1.71..., iff |cross|^2 <= 1.
fuzzyZeroArea(a, b, c) ==
    LET x == Cross(VSub(Grid(c), Grid(b)), VSub(Grid(a), Grid(b)))
    IN /\ \A j \in 1..3 : Abs(x[j]) <= 1
       /\ Dot(x, x) <= 1

\* calcNormal(target, vec1, vec2, vec3): (vec2 - vec3) x (vec1 - vec2), normalized
calcNormal(vec1, vec2, vec3) ==
    Normalize(Cross(VSub(Grid(vec2), Grid(vec3)), VSub(Grid(vec1), Grid(vec2))))

\* the squared distance of two positions, in grid units (distanceTo is only compared)
distanceToSq(a, b) == LET d == VSub(Grid(a), Grid(b)) IN Dot(d, d)

-----------------------------------------------------------------------------
(* Evaluation helpers: a function built by a constructor is re-evaluated at  *)
(* every application unless it is first turned into a tuple or a record.     *)

Seal(f) == << >> \o f

SealF(f) == f @@ << >>

RECURSIVE ConcatBlocks(_, _, _)
ConcatBlocks(blocks, lo, hi) ==
    IF lo > hi THEN << >>
    ELSE IF lo = hi THEN blocks[lo]
    ELSE LET m == (lo + hi) \div 2
         IN ConcatBlocks(blocks, lo, m) \o ConcatBlocks(blocks, m + 1, hi)

\* new Float32Array(arrayLength) after the writes `written` made from index 0 on:
\* zero-filled, and a write past the end is dropped
TypedArray(arrayLength, written) ==
    Seal([ q \in 1..arrayLength |-> IF q <= Len(written) THEN written[q] ELSE 0 ])

-----------------------------------------------------------------------------
(* BufferAttribute: [itemSize, array, buf]; array is the Float32Array, buf    *)
(* names its storage.  BufferGeometry: [isBufferGeometry, indexed, index,    *)
(* attributes, disposed].                                                    *)

\* array[i] of a typed array, 0-based; undefined (NaN once stored) past its end
Get(array, i) == IF i >= 0 /\ i < Len(array) THEN array[i + 1] ELSE NaN

\* Vector3.fromBufferAttribute(attribute, i): getX, getY, getZ
fromBufferAttribute(attribute, i) ==
    << Get(attribute.array, i * attribute.itemSize),
       Get(attribute.array, i * attribute.itemSize + 1),
       Get(attribute.array, i * attribute.itemSize + 2) >>

\* attribute.count = array.length / itemSize (of position: itemSize 3)
Count(attribute) == Len(attribute.array) \div attribute.itemSize

HasAttribute(g, name) == name \in DOMAIN g.attributes

\* BufferGeometry.clone(): index and attributes are copied into new storage
Clone(g, id) ==
    [ isBufferGeometry |-> g.isBufferGeometry,
      indexed    |-> g.indexed,
      index      |-> g.index,
      attributes |-> SealF([ n \in DOMAIN g.attributes |->
                         [ itemSize |-> g.attributes[n].itemSize,
                           array    |-> g.attributes[n].array,
                           buf      |-> id ] ]),
      disposed   |-> 0 ]

\* BufferGeometry.toNonIndexed(): every attribute is expanded through the index
ToNonIndexed(g, id) ==
    [ isBufferGeometry |-> g.isBufferGeometry,
      indexed    |-> FALSE,
      index      |-> << >>,
      attributes |-> SealF([ n \in DOMAIN g.attributes |->
                         LET a == g.attributes[n]
                             s == a.itemSize
                         IN [ itemSize |-> s,
                              array    |-> Seal([ q \in 1..(Len(g.index) * s) |->
                                               Get(a.array, g.index[((q - 1) \div s) + 1] * s + ((q - 1) % s)) ]),
                              buf      |-> id ] ]),
      disposed   |-> 0 ]

\* (geometry.index !== null) ? geometry.toNonIndexed() : geometry.clone()
NonIndexedCopy(g, id) == IF g.indexed THEN ToNonIndexed(g, id) ELSE Clone(g, id)

\* the face normal three.js gives triangle (pA, pB, pC): (pC - pB) x (pA - pB)
FaceCross(pA, pB, pC) == Cross(VSub(Grid(pC), Grid(pB)), VSub(Grid(pA), Grid(pB)))

\* the face normals of the triangles of an indexed geometry, by triangle (0-based)
FaceCrosses(g) ==
    LET p == g.attributes["position"]
    IN SealF([ t \in 0..((Len(g.index) \div 3) - 1) |->
                 FaceCross(fromBufferAttribute(p, g.index[3 * t + 1]),
                           fromBufferAttribute(p, g.index[3 * t + 2]),
                           fromBufferAttribute(p, g.index[3 * t + 3])) ])

\* the sum of the face normals of triangles 0..t at vertex v, once per corner at v
RECURSIVE NormalSum(_, _, _, _)
NormalSum(g, fc, v, t) ==
    IF t < 0 THEN <<0, 0, 0>>
    ELSE LET rest == NormalSum(g, fc, v, t - 1)
             hits == Cardinality({ c \in 1..3 : g.index[3 * t + c] = v })
         IN << rest[1] + hits * fc[t][1],
               rest[2] + hits * fc[t][2],
               rest[3] + hits * fc[t][3] >>

\* BufferGeometry.computeVertexNormals(): the normal array for g's positions.
\* Non-indexed: each vertex gets its triangle's normalized face normal.
\* Indexed: each vertex gets the normalized sum of the face normals around it.
ComputedNormalArray(g) ==
    LET p  == g.attributes["position"]
        n  == Count(p)
    IN IF ~g.indexed
       THEN [ q \in 1..(3 * n) |->
                LET v == (q - 1) \div 3
                    t == v \div 3
                IN Normalize(FaceCross(fromBufferAttribute(p, 3 * t),
                                       fromBufferAttribute(p, 3 * t + 1),
                                       fromBufferAttribute(p, 3 * t + 2)))[((q - 1) % 3) + 1] ]
       ELSE LET nt == Len(g.index) \div 3
                fc == FaceCrosses(g)
            IN [ q \in 1..(3 * n) |->
                   Normalize(NormalSum(g, fc, (q - 1) \div 3, nt - 1))[((q - 1) % 3) + 1] ]

-----------------------------------------------------------------------------
(* Local Functions, Geometry *)

\* a gatherAttributes that returns the desired names only
gatherAttributesDesired(geometry) == {"position", "normal", "uv"}

gatherAttributes(geometry) == {"position", "normal", "uv"} \cup DOMAIN geometry.attributes

\* setTriangle(positions, index, step, vec0, vec1, vec2): the 3 * step floats
\* it leaves at index; a Vector3 has no w, so the fourth lane is undefined
setTriangle(step, vec0, vec1, vec2) ==
    [ k \in 1..(3 * step) |->
        LET vec  == IF (k - 1) \div step = 0 THEN vec0
                    ELSE IF (k - 1) \div step = 1 THEN vec1 ELSE vec2
            lane == (k - 1) % step
        IN IF lane < 3 THEN vec[lane + 1] ELSE IF lane = 3 THEN NaN ELSE 0 ]

\* a verifyGeometry that does not look at isBufferGeometry
verifyGeometryUntyped(geometry) == HasAttribute(geometry, "position")

\* a verifyGeometry that fails when normal is undefined
verifyGeometryNormalRequired(geometry) ==
    /\ geometry.isBufferGeometry
    /\ HasAttribute(geometry, "position")
    /\ HasAttribute(geometry, "normal")

verifyGeometry(geometry) ==
    /\ geometry.isBufferGeometry
    /\ HasAttribute(geometry, "position")

\* the geometry verifyGeometry leaves behind: when it succeeds and normal is
\* undefined, geometry.computeVertexNormals() has set the normal attribute
Verified(geometry, id) ==
    IF verifyGeometry(geometry) /\ ~HasAttribute(geometry, "normal")
    THEN [ geometry EXCEPT !.attributes =
             SealF([ n \in DOMAIN geometry.attributes \cup {"normal"} |->
                 IF n = "normal"
                 THEN [ itemSize |-> 3, array |-> Seal(ComputedNormalArray(geometry)), buf |-> id ]
                 ELSE geometry.attributes[n] ]) ]
    ELSE geometry

\* new THREE.BufferGeometry() with the attributes a pass has set
NewGeometry(attributes) ==
    [ isBufferGeometry |-> TRUE,
      indexed    |-> FALSE,
      index      |-> << >>,
      attributes |-> attributes,
      disposed   |-> 0 ]

\* the vertex a point code names in the triangle (v0, v1, v2):
\* 0, 1, 2 the corners, 3, 4, 5 the midpoints of 0-1, 1-2 and 2-0
Point(code, v0, v1, v2) ==
    CASE code = 0 -> v0
      [] code = 1 -> v1
      [] code = 2 -> v2
      [] code = 3 -> Midpoint(v0, v1)
      [] code = 4 -> Midpoint(v1, v2)
      [] OTHER    -> Midpoint(v2, v0)

\* the setTriangle calls for a list of sub-triangles given as triples of point codes
RECURSIVE SetTriangles(_, _, _, _, _)
SetTriangles(pattern, step, v0, v1, v2) ==
    IF pattern = << >> THEN << >>
    ELSE setTriangle(step, Point(pattern[1][1], v0, v1, v2),
                           Point(pattern[1][2], v0, v1, v2),
                           Point(pattern[1][3], v0, v1, v2))
         \o SetTriangles(Tail(pattern), step, v0, v1, v2)

\* the number of turns of `for (let i = 0; i < vertexCount; i += 3)`
TriangleLoop(vertexCount) == (vertexCount + 2) \div 3

-----------------------------------------------------------------------------
(* Flat *)

\* a flat that makes room for three new triangles per triangle
flatNewTrianglesThree == 4 - 1

\* const newTriangles = 4
flatNewTriangles == 4

\* Add New Triangle Positions: (v0, m01, m20), (v1, m12, m01), (v2, m20, m12), (m01, m12, m20)
FlatPattern == << <<0, 3, 5>>, <<1, 4, 3>>, <<2, 5, 4>>, <<3, 4, 5>> >>

FlatArray(existing, attribute) ==
    LET vertexCount == Count(existing.attributes["position"])
        step        == attribute.itemSize
        nt          == TriangleLoop(vertexCount)
        blocks      == Seal([ t \in 1..nt |->
                          SetTriangles(FlatPattern, step,
                                       fromBufferAttribute(attribute, 3 * (t - 1)),
                                       fromBufferAttribute(attribute, 3 * (t - 1) + 1),
                                       fromBufferAttribute(attribute, 3 * (t - 1) + 2)) ])
    IN TypedArray(vertexCount * step * flatNewTriangles, ConcatBlocks(blocks, 1, nt))

\* the geometry `loop` that flat builds from `existing`
FlatGeometry(existing, id) ==
    NewGeometry(SealF([ n \in gatherAttributes(existing) \cap DOMAIN existing.attributes |->
                    [ itemSize |-> existing.attributes[n].itemSize,
                      array    |-> FlatArray(existing, existing.attributes[n]),
                      buf      |-> id ] ]))

-----------------------------------------------------------------------------
(* Split Hypotenuse *)

edgeSplitNewTriangles == 4

\* an edge split that keeps every triangle
triangleExistAlways(v0, v1, v2) == TRUE

\* Verify Area: triangleExist.push(! fuzzy(triangleSize, 0))
triangleExist(v0, v1, v2) == ~fuzzyZeroArea(v0, v1, v2)

\* Edges: per triangle of `existing`, triangleExist, the six edge hashes
\* "<vecHashA>_<vecHashB>_<normalHash>" (0to1, 1to0, 1to2, 2to1, 2to0, 0to2) and
\* the squared lengths of 0-1, 1-2 and 2-0
EdgeTable(existing) ==
    LET posAttribute == existing.attributes["position"]
        nt           == TriangleLoop(Count(posAttribute))
    IN Seal([ t \in 1..nt |->
         LET v0 == fromBufferAttribute(posAttribute, 3 * (t - 1))
             v1 == fromBufferAttribute(posAttribute, 3 * (t - 1) + 1)
             v2 == fromBufferAttribute(posAttribute, 3 * (t - 1) + 2)
         IN IF ~triangleExist(v0, v1, v2)
            THEN [ exist |-> FALSE, hashes |-> << >>, lengths |-> << >> ]
            ELSE LET h0 == hashFromVector(v0)
                     h1 == hashFromVector(v1)
                     h2 == hashFromVector(v2)
                     nh == hashFromVector(calcNormal(v0, v1, v2))
                 IN [ exist   |-> TRUE,
                      hashes  |-> << <<h0, h1, nh>>, <<h1, h0, nh>>,
                                     <<h1, h2, nh>>, <<h2, h1, nh>>,
                                     <<h2, h0, nh>>, <<h0, h2, nh>> >>,
                      lengths |-> << distanceToSq(v0, v1), distanceToSq(v1, v2),
                                     distanceToSq(v2, v0) >> ] ])

\* the (triangle, j) pairs at which addToMapArray(edgeHashToTriangle, hash, index) ran
EdgeEntries(table, hash) ==
    { p \in (1..Len(table)) \X (1..6) :
        table[p[1]].exist /\ table[p[1]].hashes[p[2]] = hash }

\* edgeHashToTriangle[hash].length
edgeCount(table, hash) == Cardinality(EdgeEntries(table, hash))

\* edgeLength[hash]: set at the first entry in loop order whose length is not falsy
edgeLength(table, hash) ==
    LET set == { p \in EdgeEntries(table, hash) : table[p[1]].lengths[(p[2] + 1) \div 2] # 0 }
    IN IF set = {} THEN 0
       ELSE LET first == CHOOSE p \in set :
                           \A r \in set : p[1] < r[1] \/ (p[1] = r[1] /\ p[2] <= r[2])
            IN table[first[1]].lengths[(first[2] + 1) \div 2]

\* a choice of the first shared edge, whatever the lengths
SplitPatternFirstShared(edgeCount0to1, edgeCount1to2, edgeCount2to0, length0to1, length1to2, length2to0) ==
    IF (edgeCount0to1 + edgeCount1to2 + edgeCount2to0) - 3 = 0
    THEN << <<0, 1, 2>> >>
    ELSE IF edgeCount0to1 > 1
    THEN (IF edgeCount2to0 > 1 THEN << <<0, 3, 5>>, <<3, 2, 5>> >> ELSE << <<0, 3, 2>> >>)
         \o (IF edgeCount1to2 > 1 THEN << <<3, 1, 4>>, <<4, 2, 3>> >> ELSE << <<1, 2, 3>> >>)
    ELSE IF edgeCount1to2 > 1
    THEN << <<1, 4, 0>> >>
         \o (IF edgeCount2to0 > 1 THEN << <<4, 2, 5>>, <<5, 0, 4>> >> ELSE << <<2, 0, 4>> >>)
    ELSE << <<2, 5, 1>>, <<0, 1, 5>> >>

\* the same with the corners of a split triangle emitted clockwise
SplitPatternTurned(edgeCount0to1, edgeCount1to2, edgeCount2to0, length0to1, length1to2, length2to0) ==
    IF (edgeCount0to1 + edgeCount1to2 + edgeCount2to0) - 3 = 0
    THEN << <<0, 1, 2>> >>
    ELSE << <<0, 2, 1>> >>

\* Add New Triangle Positions: the sub-triangles of one triangle, as point codes,
\* from its three edge counts and edge lengths
SplitPattern(edgeCount0to1, edgeCount1to2, edgeCount2to0, length0to1, length1to2, length2to0) ==
    IF (edgeCount0to1 + edgeCount1to2 + edgeCount2to0) - 3 = 0
    THEN << <<0, 1, 2>> >>
    ELSE IF /\ (length0to1 > length1to2 \/ edgeCount1to2 <= 1)
            /\ (length0to1 > length2to0 \/ edgeCount2to0 <= 1)
            /\ edgeCount0to1 > 1
    THEN (IF edgeCount2to0 > 1 THEN << <<0, 3, 5>>, <<3, 2, 5>> >> ELSE << <<0, 3, 2>> >>)
         \o (IF edgeCount1to2 > 1 THEN << <<3, 1, 4>>, <<4, 2, 3>> >> ELSE << <<1, 2, 3>> >>)
    ELSE IF (length1to2 > length2to0 \/ edgeCount2to0 <= 1) /\ edgeCount1to2 > 1
    THEN (IF edgeCount0to1 > 1 THEN << <<4, 3, 1>>, <<3, 4, 0>> >> ELSE << <<1, 4, 0>> >>)
         \o (IF edgeCount2to0 > 1 THEN << <<4, 2, 5>>, <<5, 0, 4>> >> ELSE << <<2, 0, 4>> >>)
    ELSE IF edgeCount2to0 > 1
    THEN (IF edgeCount1to2 > 1 THEN << <<2, 5, 4>>, <<5, 1, 4>> >> ELSE << <<2, 5, 1>> >>)
         \o (IF edgeCount0to1 > 1 THEN << <<0, 3, 5>>, <<3, 1, 5>> >> ELSE << <<0, 1, 5>> >>)
    ELSE << <<0, 1, 2>> >>

\* Check for Shared Edges: the sub-triangles of a triangle with edge hashes e
TrianglePattern(table, e) ==
    SplitPattern(edgeCount(table, e[1]), edgeCount(table, e[3]), edgeCount(table, e[5]),
                 edgeLength(table, e[1]), edgeLength(table, e[3]), edgeLength(table, e[5]))

\* per triangle of the edge table: << >> when it does not exist
\* (`if (! triangleExist[i / 3]) continue`), else its sub-triangles
PatternsOf(table) ==
    Seal([ t \in 1..Len(table) |->
         IF ~table[t].exist THEN << >> ELSE TrianglePattern(table, table[t].hashes) ])

SplitPatterns(existing) == PatternsOf(EdgeTable(existing))

\* Resize Array: reducedCount = (index * 3) / step
reducedCount(index, step) == (index * 3) \div step

\* the reduced array: the first reducedCount elements of the floatArray of
\* arrayLength elements that holds the floats `written`
ReducedArray(arrayLength, written, step) ==
    Seal([ q \in 1..reducedCount(Len(written), step) |->
             IF q <= arrayLength THEN (IF q <= Len(written) THEN written[q] ELSE 0) ELSE NaN ])

SplitArray(existing, attribute, patterns) ==
    ReducedArray(Count(existing.attributes["position"]) * attribute.itemSize * edgeSplitNewTriangles,
                 ConcatBlocks(Seal([ t \in 1..Len(patterns) |->
                                  SetTriangles(patterns[t], attribute.itemSize,
                                               fromBufferAttribute(attribute, 3 * (t - 1)),
                                               fromBufferAttribute(attribute, 3 * (t - 1) + 1),
                                               fromBufferAttribute(attribute, 3 * (t - 1) + 2)) ]),
                              1, Len(patterns)),
                 attribute.itemSize)

\* the geometry `split` that edgeSplit builds from `existing`
SplitGeometryOf(existing, patterns, id) ==
    NewGeometry(SealF([ n \in gatherAttributes(existing) \cap DOMAIN existing.attributes |->
                    [ itemSize |-> existing.attributes[n].itemSize,
                      array    |-> SplitArray(existing, existing.attributes[n], patterns),
                      buf      |-> id ] ]))

SplitGeometry(existing, id) == SplitGeometryOf(existing, SplitPatterns(existing), id)

-----------------------------------------------------------------------------
(* Smooth *)

\* weights are held as numerators over BetaDen
BetaDen == 2^10

\* Loop's Formula: beta = 1 / k * ((5/8) - Math.pow((3/8) + (1/4) * Math.cos(2 * Math.PI / k), 2)),
\* times BetaDen and rounded; exact for k = 1, 2, 3, 4 and 6, where the cosine is rational
LoopBetaTable ==
    << 240, 312, 192, 124, 86, 64, 50, 41, 35, 30, 26, 23,
       21, 19, 18, 16, 15, 14, 14, 13, 12, 11, 11, 10 >>

LoopBeta(k) == IF k <= Len(LoopBetaTable) THEN LoopBetaTable[k] ELSE 240 \div k

\* an edge vertex weight of 1/16
EdgeBetaSixteenth == BetaDen \div 16

\* const beta = 0.125 of a newly added edge vertex
EdgeBeta == BetaDen \div 8

\* tables that keep the position hash alone of the opposite of an edge that
\* has one opposite
SmoothTablesPositionOpposites(existing) ==
    LET posAttribute == existing.attributes["position"]
        norAttribute == existing.attributes["normal"]
        vertexCount  == Count(posAttribute)
        nv           == 3 * TriangleLoop(vertexCount)
        positionHash == Seal([ i \in 1..nv |-> hashFromVector(fromBufferAttribute(posAttribute, i - 1)) ])
        indexToHash  == Seal([ i \in 1..nv |->
                           << positionHash[i], hashFromVector(fromBufferAttribute(norAttribute, i - 1)) >> ])
        \* the first vertex of i's triangle (1-based)
        base(i)      == 3 * ((i - 1) \div 3) + 1
        \* hash of the midpoint of the edge opposite to vertex i in its triangle
        oppositeEdge == Seal([ i \in 1..nv |->
                           LET o == i - base(i)
                               a == base(i) + ((o + 1) % 3)
                               b == base(i) + ((o + 2) % 3)
                           IN hashFromVector(Midpoint(fromBufferAttribute(posAttribute, a - 1),
                                                      fromBufferAttribute(posAttribute, b - 1))) ])
    IN [ hashToIndex |->
           SealF([ h \in { indexToHash[i] : i \in 1..nv } |->
                     (CHOOSE i \in 1..nv :
                        indexToHash[i] = h /\ \A j \in 1..(i - 1) : indexToHash[j] # h) - 1 ]),
         existingNeighbors |->
           SealF([ h \in { positionHash[i] : i \in 1..nv } |->
                     { indexToHash[j] : j \in { j \in 1..nv :
                         \E i \in base(j)..(base(j) + 2) : i # j /\ positionHash[i] = h } } ]),
         flatOpposites |->
           SealF([ h \in { oppositeEdge[i] : i \in 1..nv } |->
                     IF Cardinality({ indexToHash[i] : i \in { i \in 1..nv : oppositeEdge[i] = h } }) = 1
                     THEN { << positionHash[i] >> : i \in { i \in 1..nv : oppositeEdge[i] = h } }
                     ELSE { indexToHash[i] : i \in { i \in 1..nv : oppositeEdge[i] = h } } ]) ]

\* Existing Vertex Hashes: hashToIndex, indexToHash, existingNeighbors and
\* flatOpposites of `existing`
SmoothTables(existing) ==
    LET posAttribute == existing.attributes["position"]
        norAttribute == existing.attributes["normal"]
        vertexCount  == Count(posAttribute)
        nv           == 3 * TriangleLoop(vertexCount)
        positionHash == Seal([ i \in 1..nv |-> hashFromVector(fromBufferAttribute(posAttribute, i - 1)) ])
        indexToHash  == Seal([ i \in 1..nv |->
                           << positionHash[i], hashFromVector(fromBufferAttribute(norAttribute, i - 1)) >> ])
        \* the first vertex of i's triangle (1-based)
        base(i)      == 3 * ((i - 1) \div 3) + 1
        \* hash of the midpoint of the edge opposite to vertex i in its triangle
        oppositeEdge == Seal([ i \in 1..nv |->
                           LET o == i - base(i)
                               a == base(i) + ((o + 1) % 3)
                               b == base(i) + ((o + 2) % 3)
                           IN hashFromVector(Midpoint(fromBufferAttribute(posAttribute, a - 1),
                                                      fromBufferAttribute(posAttribute, b - 1))) ])
    IN [ hashToIndex |->
           SealF([ h \in { indexToHash[i] : i \in 1..nv } |->
                     (CHOOSE i \in 1..nv :
                        indexToHash[i] = h /\ \A j \in 1..(i - 1) : indexToHash[j] # h) - 1 ]),
         existingNeighbors |->
           SealF([ h \in { positionHash[i] : i \in 1..nv } |->
                     { indexToHash[j] : j \in { j \in 1..nv :
                         \E i \in base(j)..(base(j) + 2) : i # j /\ positionHash[i] = h } } ]),
         flatOpposites |->
           SealF([ h \in { oppositeEdge[i] : i \in 1..nv } |->
                     { indexToHash[i] : i \in { i \in 1..nv : oppositeEdge[i] = h } } ]) ]

\* the sum of beta * existingAttribute[hashToIndex[hash][0]] over the hashes of a set
RECURSIVE WeightedSum(_, _, _, _)
WeightedSum(hashes, tables, existingAttribute, beta) ==
    IF hashes = {} THEN <<0, 0, 0>>
    ELSE LET h == CHOOSE x \in hashes : TRUE
         IN VAdd(VMulQ(fromBufferAttribute(existingAttribute, tables.hashToIndex[h]), beta, BetaDen),
                 WeightedSum(hashes \ {h}, tables, existingAttribute, beta))

\* a smooth that weights uv whatever uvSmooth is
SkipSmoothingNever(attributeName, uvSmooth) == FALSE

\* a smooth that leaves every attribute as flat made it unless uvSmooth
SkipSmoothingAny(attributeName, uvSmooth) == ~uvSmooth

\* whether the values of this attribute are left as flat made them
SkipSmoothing(attributeName, uvSmooth) == attributeName = "uv" /\ ~uvSmooth

\* a weighting that adds the neighbours and keeps the whole of the vertex
SmoothVertexFullStart(tables, existingAttribute, flatAttribute, flatPosition, i) ==
    LET vertex       == fromBufferAttribute(flatAttribute, i)
        positionHash == hashFromVector(fromBufferAttribute(flatPosition, i))
    IN IF positionHash \in DOMAIN tables.existingNeighbors
       THEN VAdd(vertex,
                 WeightedSum(tables.existingNeighbors[positionHash], tables, existingAttribute,
                             LoopBeta(Cardinality(tables.existingNeighbors[positionHash]))))
       ELSE vertex

\* a weighting that applies the edge rule to any vertex with opposites
SmoothVertexAnyOpposite(tables, existingAttribute, flatAttribute, flatPosition, i) ==
    LET vertex       == fromBufferAttribute(flatAttribute, i)
        positionHash == hashFromVector(fromBufferAttribute(flatPosition, i))
    IN IF positionHash \in DOMAIN tables.existingNeighbors
       THEN VAdd(VMulQ(vertex,
                       BetaDen - LoopBeta(Cardinality(tables.existingNeighbors[positionHash]))
                                   * Cardinality(tables.existingNeighbors[positionHash]),
                       BetaDen),
                 WeightedSum(tables.existingNeighbors[positionHash], tables, existingAttribute,
                             LoopBeta(Cardinality(tables.existingNeighbors[positionHash]))))
       ELSE IF positionHash \in DOMAIN tables.flatOpposites
       THEN VAdd(VMulQ(vertex,
                       BetaDen - EdgeBeta * Cardinality(tables.flatOpposites[positionHash]),
                       BetaDen),
                 WeightedSum(tables.flatOpposites[positionHash], tables, existingAttribute, EdgeBeta))
       ELSE vertex

\* _vertex[v] of flat vertex i after the weighting
SmoothVertex(tables, existingAttribute, flatAttribute, flatPosition, i) ==
    LET vertex       == fromBufferAttribute(flatAttribute, i)
        positionHash == hashFromVector(fromBufferAttribute(flatPosition, i))
    IN IF positionHash \in DOMAIN tables.existingNeighbors
       THEN LET neighbors == tables.existingNeighbors[positionHash]
                k         == Cardinality(neighbors)
                beta      == LoopBeta(k)
            IN VAdd(VMulQ(vertex, BetaDen - beta * k, BetaDen),
                    WeightedSum(neighbors, tables, existingAttribute, beta))
       ELSE IF /\ positionHash \in DOMAIN tables.flatOpposites
               /\ Cardinality(tables.flatOpposites[positionHash]) = 2
       THEN LET opposites == tables.flatOpposites[positionHash]
            IN VAdd(VMulQ(vertex, BetaDen - EdgeBeta * 2, BetaDen),
                    WeightedSum(opposites, tables, existingAttribute, EdgeBeta))
       ELSE vertex

SmoothArray(tables, attributeName, existingAttribute, flatAttribute, flatPosition, uvSmooth) ==
    LET count  == Count(flatPosition)
        step   == flatAttribute.itemSize
        nt     == TriangleLoop(count)
        V(i)   == IF SkipSmoothing(attributeName, uvSmooth)
                  THEN fromBufferAttribute(flatAttribute, i)
                  ELSE SmoothVertex(tables, existingAttribute, flatAttribute, flatPosition, i)
        blocks == Seal([ t \in 1..nt |->
                     setTriangle(step, V(3 * (t - 1)), V(3 * (t - 1) + 1), V(3 * (t - 1) + 2)) ])
    IN TypedArray(count * step, ConcatBlocks(blocks, 1, nt))

\* the geometry `loop` that smooth builds from `existing` and `flat`
SmoothGeometryOf(tables, existing, flat, uvSmooth, id) ==
    NewGeometry(SealF([ n \in (gatherAttributes(existing) \cap DOMAIN existing.attributes)
                                 \cap DOMAIN flat.attributes |->
                    [ itemSize |-> flat.attributes[n].itemSize,
                      array    |-> SmoothArray(tables, n, existing.attributes[n], flat.attributes[n],
                                               flat.attributes["position"], uvSmooth),
                      buf      |-> id ] ]))

SmoothGeometry(existing, flat, uvSmooth, id) ==
    SmoothGeometryOf(SmoothTables(existing), existing, flat, uvSmooth, id)

-----------------------------------------------------------------------------
(* The heap: geometry object id is heap[id].  Each function returns the heap  *)
(* it leaves, the id it returns and the events it logged.                     *)

Event(ev, on, out) == [ ev |-> ev, on |-> on, out |-> out ]

\* geometry.dispose()
Dispose(h, id) == [ h EXCEPT ![id].disposed = @ + 1 ]

\* the heap after verifyGeometry(geometry)
AfterVerify(h, geometry) == [ h EXCEPT ![geometry] = Verified(@, geometry) ]

\* if (! verifyGeometry(geometry)) return geometry
Rejected(h, geometry) ==
    [ heap |-> h, ret |-> geometry, log |-> << Event("rejected", geometry, geometry) >> ]

\* const existing = (geometry.index !== null) ? geometry.toNonIndexed() : geometry.clone(),
\* as the new last object of the heap
WithExisting(h, geometry) == h \o << NonIndexedCopy(h[geometry], Len(h) + 1) >>

\* flat, from the heap h whose last object is `existing`
FlatBuild(h, geometry) ==
    LET existing == Len(h)
        loop     == Len(h) + 1
    IN [ heap |-> Dispose(h \o << FlatGeometry(h[existing], loop) >>, existing),
         ret  |-> loop,
         log  |-> << Event("copy", geometry, existing),
                     Event("flat", existing, loop),
                     Event("dispose", existing, existing) >> ]

flat(h, geometry) ==
    IF ~verifyGeometry(h[geometry]) THEN Rejected(h, geometry)
    ELSE FlatBuild(WithExisting(AfterVerify(h, geometry), geometry), geometry)

\* edgeSplit, from the heap h whose last object is `existing`
SplitBuild(h, geometry) ==
    LET existing == Len(h)
        split    == Len(h) + 1
    IN [ heap |-> Dispose(h \o << SplitGeometry(h[existing], split) >>, existing),
         ret  |-> split,
         log  |-> << Event("copy", geometry, existing),
                     Event("edgeSplit", existing, split),
                     Event("dispose", existing, existing) >> ]

edgeSplit(h, geometry) ==
    IF ~verifyGeometry(h[geometry]) THEN Rejected(h, geometry)
    ELSE SplitBuild(WithExisting(AfterVerify(h, geometry), geometry), geometry)

\* smooth, from what `const flat = LoopSubdivision.flat(existing)` returned
SmoothBuild(f, geometry, existing, uvSmooth) ==
    LET loop == Len(f.heap) + 1
    IN [ heap |-> Dispose(Dispose(f.heap \o << SmoothGeometry(f.heap[existing], f.heap[f.ret],
                                                               uvSmooth, loop) >>,
                                  f.ret),
                          existing),
         ret  |-> loop,
         log  |-> << Event("copy", geometry, existing) >> \o f.log
                 \o << Event("smooth", existing, loop),
                       Event("dispose", f.ret, f.ret),
                       Event("dispose", existing, existing) >> ]

smooth(h, geometry, uvSmooth) ==
    IF ~verifyGeometry(h[geometry]) THEN Rejected(h, geometry)
    ELSE SmoothBuild(flat(WithExisting(AfterVerify(h, geometry), geometry), Len(h) + 1),
                     geometry, Len(h) + 1, uvSmooth)

\* let currentTriangles = modifiedGeometry.attributes.position.count / 3;
\* currentTriangles < maxTriangles (count / 3 is not rounded: compared as count < 3 * maxTriangles)
BelowMaxTriangles(geometry, maxTriangles) ==
    Count(geometry.attributes["position"]) < 3 * maxTriangles

\* a modify that works on bufferGeometry itself: let modifiedGeometry = bufferGeometry
NotCloned(h, bufferGeometry) ==
    [ heap |-> h,
      ret  |-> bufferGeometry,
      log  |-> << Event("clone", bufferGeometry, bufferGeometry) >> ]

\* let modifiedGeometry = bufferGeometry.clone(): [heap, ret, log] with ret the
\* current modifiedGeometry
Cloned(h, bufferGeometry) ==
    [ heap |-> h \o << Clone(h[bufferGeometry], Len(h) + 1) >>,
      ret  |-> Len(h) + 1,
      log  |-> << Event("clone", bufferGeometry, Len(h) + 1) >> ]

\* a modify that does not dispose the mesh it replaces
ReplacedKept(s, r) ==
    [ heap |-> r.heap,
      ret  |-> r.ret,
      log  |-> s.log \o r.log ]

\* modifiedGeometry.dispose(); modifiedGeometry = r.ret, after the pass that left r
Replaced(s, r) ==
    [ heap |-> Dispose(r.heap, s.ret),
      ret  |-> r.ret,
      log  |-> s.log \o r.log \o << Event("dispose", s.ret, s.ret) >> ]

\* a Presplit that does not test `split`
PresplitAlways(s, split) ==
    Replaced(s, edgeSplit(s.heap, s.ret))

\* Presplit: if (split) { ... }
Presplit(s, split) ==
    IF split THEN Replaced(s, edgeSplit(s.heap, s.ret)) ELSE s

\* one turn of the Apply Subdivision loop
Round(s, uvSmooth, flatOnly, maxTriangles) ==
    IF BelowMaxTriangles(s.heap[s.ret], maxTriangles)
    THEN Replaced(s, IF flatOnly THEN flat(s.heap, s.ret) ELSE smooth(s.heap, s.ret, uvSmooth))
    ELSE [ s EXCEPT !.log = @ \o << Event("noop", s.ret, s.ret) >> ]

\* for (let i = 0; i < iterations; i++)
RECURSIVE ApplySubdivision(_, _, _, _, _, _)
ApplySubdivision(s, i, iterations, uvSmooth, flatOnly, maxTriangles) ==
    IF i < iterations
    THEN ApplySubdivision(Round(s, uvSmooth, flatOnly, maxTriangles), i + 1,
                          iterations, uvSmooth, flatOnly, maxTriangles)
    ELSE s

modify(h, bufferGeometry, iterations, split, uvSmooth, flatOnly, maxTriangles) ==
    IF ~verifyGeometry(h[bufferGeometry]) THEN Rejected(h, bufferGeometry)
    ELSE ApplySubdivision(Presplit(Cloned(AfterVerify(h, bufferGeometry), bufferGeometry), split),
                          0, iterations, uvSmooth, flatOnly, maxTriangles)

-----------------------------------------------------------------------------
(* Input meshes *)

\* triangles on the 1/256 grid: the two halves of the unit square in z = 0,
\* a triangle in x = 0 sharing an edge with the first, a zero-area triangle,
\* and a thin triangle whose first two corners round to the same position hash
Templates ==
    << << <<0, 0, 0>>,   <<256, 0, 0>>,   <<0, 256, 0>> >>,
       << <<256, 0, 0>>, <<256, 256, 0>>, <<0, 256, 0>> >>,
       << <<0, 0, 0>>,   <<0, 256, 0>>,   <<0, 0, 256>> >>,
       << <<0, 0, 0>>,   <<0, 0, 0>>,     <<256, 0, 0>> >>,
       << <<0, 0, 0>>,   <<1, 0, 0>>,     <<0, 256, 0>> >> >>

\* the triangle lists meshes are made of, as lists of templates
Shapes ==
    << << >>, <<1>>, <<4>>, <<5>>,
       <<1, 1>>, <<1, 2>>, <<1, 3>>, <<1, 4>>, <<4, 4>>,
       <<1, 2, 3>>, <<1, 4, 2>> >>

TriLists == { Shapes[i] : i \in { i \in 1..Len(Shapes) : Len(Shapes[i]) <= MaxTris } }

PositionNormal == {"position", "normal"}

AllAttributes == {"position", "normal", "uv", "color", "weight"}

ItemSize(name) ==
    CASE name = "uv"     -> 2
      [] name = "color"  -> 4
      [] name = "weight" -> 1
      [] OTHER           -> 3

\* position of soup vertex v (0-based) of a triangle list
SoupPosition(tris, v) ==
    LET p == Templates[tris[(v \div 3) + 1]][(v % 3) + 1]
    IN << p[1] * GridUnit, p[2] * GridUnit, p[3] * GridUnit >>

\* the value an input mesh gives attribute `name` at soup vertex v
SoupValue(tris, name, v) ==
    LET P == SoupPosition(tris, v)
        t == 3 * (v \div 3)
    IN CASE name = "position" -> P
         [] name = "normal"   -> Normalize(FaceCross(SoupPosition(tris, t), SoupPosition(tris, t + 1),
                                                     SoupPosition(tris, t + 2)))
         [] name = "uv"       -> << P[1] + P[3], P[2] >>
         [] name = "color"    -> << P[1], P[2], P[3], Unit >>
         [] OTHER             -> << P[1] + 2 * P[2] >>

\* the soup vertices kept by welding equal positions, in order
Welded(tris) ==
    LET n     == 3 * Len(tris)
        first == { v \in 0..(n - 1) : \A u \in 0..(v - 1) : SoupPosition(tris, u) # SoupPosition(tris, v) }
    IN [ verts |-> Seal([ r \in 1..Cardinality(first) |->
                      CHOOSE v \in first : Cardinality({ u \in first : u < v }) = r - 1 ]),
         index |-> Seal([ q \in 1..n |->
                      LET v0 == CHOOSE v \in first : SoupPosition(tris, v) = SoupPosition(tris, q - 1)
                      IN Cardinality({ u \in first : u < v0 }) ]) ]

MakeMesh(tris, layout, indexed, isGeometry) ==
    LET w     == Welded(tris)
        verts == IF indexed THEN w.verts ELSE Seal([ r \in 1..(3 * Len(tris)) |-> r - 1 ])
    IN [ isBufferGeometry |-> isGeometry,
         indexed    |-> indexed,
         index      |-> IF indexed THEN w.index ELSE << >>,
         attributes |-> SealF([ name \in layout |->
                          LET s == ItemSize(name)
                          IN [ itemSize |-> s,
                               array    |-> Seal([ q \in 1..(Len(verts) * s) |->
                                               SoupValue(tris, name, verts[((q - 1) \div s) + 1])[((q - 1) % s) + 1] ]),
                               buf      |-> 1 ] ]),
         disposed   |-> 0 ]

\* non-indexed and indexed geometries with and without normal and with every
\* attribute width, geometries without position, and objects that are no geometry
InputMeshes ==
    { MakeMesh(tris, layout, FALSE, TRUE) :
        tris \in TriLists, layout \in { PositionNormal, {"position"}, AllAttributes } }
    \cup { MakeMesh(tris, layout, TRUE, TRUE) :
        tris \in TriLists, layout \in { {"position"}, AllAttributes } }
    \cup { MakeMesh(tris, {"normal", "uv"}, indexed, TRUE) : tris \in TriLists, indexed \in BOOLEAN }
    \cup { MakeMesh(tris, PositionNormal, FALSE, FALSE) : tris \in TriLists }

MaxTrianglesChoices == {MaxTris, Infinity}

NoArg ==
    [ iterations |-> 0, split |-> FALSE, uvSmooth |-> FALSE, flatOnly |-> FALSE,
      maxTriangles |-> Infinity ]

-----------------------------------------------------------------------------
(* The state machine: one call of modify, edgeSplit, flat or smooth on the    *)
(* geometry heap[1].  input0 keeps the geometry as it was before the call.    *)

\* the scratch objects as the module's top level constructs them
Untouched ==
    /\ line = 0
    /\ assigned = {}
    /\ itemStep = 0
    /\ vIndex = 0
    /\ returnTo = 0
    /\ entered = 0

Init ==
    /\ heap \in { << m >> : m \in InputMeshes }
    /\ pc = "idle"
    /\ op = "none"
    /\ arg = NoArg
    /\ result = 0
    /\ log = << >>
    /\ input0 = heap[1]
    /\ Untouched

\* a call returns: r is the [heap, ret, log] it leaves
Call(name, a, r) ==
    /\ pc = "idle"
    /\ op' = name
    /\ arg' = a
    /\ heap' = r.heap
    /\ log' = r.log
    /\ result' = r.ret
    /\ pc' = "done"
    /\ UNCHANGED <<input0, scratch>>

\* LoopSubdivision.modify(bufferGeometry, iterations, split, uvSmooth, flatOnly, maxTriangles)
ModifyCall(iterations, split, uvSmooth, flatOnly, maxTriangles) ==
    Call("modify",
         [ iterations |-> iterations, split |-> split, uvSmooth |-> uvSmooth,
           flatOnly |-> flatOnly, maxTriangles |-> maxTriangles ],
         modify(heap, 1, iterations, split, uvSmooth, flatOnly, maxTriangles))

\* LoopSubdivision.edgeSplit(geometry)
EdgeSplitCall == Call("edgeSplit", NoArg, edgeSplit(heap, 1))

\* LoopSubdivision.flat(geometry)
FlatCall == Call("flat", NoArg, flat(heap, 1))

\* LoopSubdivision.smooth(geometry, uvSmooth)
SmoothCall(uvSmooth) ==
    Call("smooth", [ NoArg EXCEPT !.uvSmooth = uvSmooth ], smooth(heap, 1, uvSmooth))

Next ==
    \/ \E iterations \in 0..MaxIter, split \in BOOLEAN, uvSmooth \in BOOLEAN,
          flatOnly \in BOOLEAN, maxTriangles \in MaxTrianglesChoices :
            ModifyCall(iterations, split, uvSmooth, flatOnly, maxTriangles)
    \/ EdgeSplitCall
    \/ FlatCall
    \/ \E uvSmooth \in BOOLEAN : SmoothCall(uvSmooth)

Spec == Init /\ [][Next]_vars

-----------------------------------------------------------------------------
(* Vocabulary of the properties *)

\* the call has returned
Returned(name) == pc = "done" /\ op = name

\* the input passes verification: it is a geometry and it has position
Valid(g) == g.isBufferGeometry /\ "position" \in DOMAIN g.attributes

\* the number of triangles of a mesh: of its index when it has one
TriangleCount(g) ==
    IF g.indexed THEN Len(g.index) \div 3
    ELSE Len(g.attributes["position"].array) \div (3 * g.attributes["position"].itemSize)

RECURSIVE Pow4(_)
Pow4(n) == IF n = 0 THEN 1 ELSE 4 * Pow4(n - 1)

\* every attribute has as many vertices as position
Aligned(g) ==
    \A n \in DOMAIN g.attributes :
        Len(g.attributes[n].array) * g.attributes["position"].itemSize
            = Len(g.attributes["position"].array) * g.attributes[n].itemSize

\* the positions in the log of the events of one kind
Events(kind) == { i \in DOMAIN log : log[i].ev = kind }

\* the rounds of the subdivision loop the log shows, no-ops included
Rounds ==
    Cardinality(Events("noop"))
    + Cardinality(Events(IF arg.flatOnly THEN "flat" ELSE "smooth"))

\* the names and values of the attributes of a and b are the same
SameAttributes(a, b) ==
    /\ DOMAIN a.attributes = DOMAIN b.attributes
    /\ \A n \in DOMAIN a.attributes :
         /\ a.attributes[n].itemSize = b.attributes[n].itemSize
         /\ a.attributes[n].array = b.attributes[n].array

\* a and b share no attribute storage
NoSharedStorage(a, b) ==
    \A n \in DOMAIN a.attributes, m \in DOMAIN b.attributes :
        a.attributes[n].buf # b.attributes[m].buf

-----------------------------------------------------------------------------
(* Properties of modify *)

\* C1: for every input that passes verification, with split = false and
\* maxTriangles = Infinity, modify(mesh, n, ...) returns a mesh with exactly
\* 4^n times the triangles of the input, with flatOnly true and false,
\* zero-area triangles included.
C1_TriangleCount ==
    (Returned("modify") /\ Valid(input0) /\ ~arg.split /\ arg.maxTriangles = Infinity)
        => TriangleCount(heap[result]) = Pow4(arg.iterations) * TriangleCount(input0)

\* two rounds of Loop subdivision have turned two triangles into thirty-two
C1_Witness ==
    /\ Returned("modify") /\ Valid(input0)
    /\ ~arg.split /\ ~arg.flatOnly /\ arg.maxTriangles = Infinity
    /\ arg.iterations = 2
    /\ TriangleCount(input0) = 2
    /\ TriangleCount(heap[result]) = 32

\* C2: given maxTriangles = T and an input that already has T or more
\* triangles, modify returns a mesh with as many triangles as the input, for
\* every iterations, split, uvSmooth and flatOnly.
C2_MaxTrianglesKeepsCount ==
    (Returned("modify") /\ Valid(input0) /\ TriangleCount(input0) >= arg.maxTriangles)
        => TriangleCount(heap[result]) = TriangleCount(input0)

\* C3: modify on an input that is no geometry or that lacks position runs no
\* edge split and no round and returns the input itself, with the attributes,
\* the values and the triangles it had before the call.
C3_FailClosed ==
    (Returned("modify") /\ ~Valid(input0))
        => /\ result = 1
           /\ heap = << input0 >>
           /\ Events("edgeSplit") = {} /\ Events("flat") = {} /\ Events("smooth") = {}

\* a geometry without position, with other attributes, was given to modify
\* with split and two iterations
C3_Witness ==
    /\ Returned("modify")
    /\ input0.isBufferGeometry /\ "position" \notin DOMAIN input0.attributes
    /\ Len(input0.attributes["normal"].array) > 0
    /\ arg.split /\ arg.iterations = 2
    /\ result = 1

\* C4: after modify, edgeSplit, flat or smooth returns, the mesh passed in has
\* the attribute names and values it had before the call, also when it has
\* position but no normal, and the returned mesh shares no attribute storage
\* with it.
C4_NoInPlaceMutation ==
    (pc = "done" /\ Valid(input0))
        => /\ SameAttributes(heap[1], input0)
           /\ NoSharedStorage(heap[result], heap[1])

\* C5: modify on a mesh that has position but no normal passes verification,
\* runs the configured passes and returns a mesh whose normal attribute has as
\* many vertices as its position attribute.
C5_MissingNormalRepaired ==
    (Returned("modify") /\ Valid(input0) /\ "normal" \notin DOMAIN input0.attributes)
        => /\ result # 1
           /\ (Events("edgeSplit") # {}) = arg.split
           /\ Rounds = arg.iterations
           /\ "normal" \in DOMAIN heap[result].attributes
           /\ Len(heap[result].attributes["normal"].array) * heap[result].attributes["position"].itemSize
                = Len(heap[result].attributes["position"].array) * heap[result].attributes["normal"].itemSize

\* a mesh of two triangles without normal went through the edge split and a
\* round of Loop subdivision
C5_Witness ==
    /\ Returned("modify") /\ Valid(input0) /\ "normal" \notin DOMAIN input0.attributes
    /\ TriangleCount(input0) = 2
    /\ arg.split /\ ~arg.flatOnly /\ arg.iterations = 1 /\ arg.maxTriangles = Infinity
    /\ Len(heap[result].attributes["normal"].array) > 0

\* C6: after every pass (edgeSplit, flat, smooth) and in the mesh modify
\* returns, every attribute of the output, of any width 1 to 4, has as many
\* vertices as position.
C6_AttributeAlignment ==
    (pc = "done" /\ Valid(input0))
        => \A id \in 2..Len(heap) : Aligned(heap[id])

\* C7: the mesh modify returns is non-indexed for every input that passes
\* verification, indexed or not, and every configuration, iterations = 0 with
\* split = false and no-op rounds included.
C7_NonIndexed ==
    (Returned("modify") /\ Valid(input0)) => ~heap[result].indexed

\* C8: on an input that passes verification modify returns a new mesh object,
\* not the input, for every configuration, and it never disposes the input.
C8_NewObjectInputKept ==
    (Returned("modify") /\ Valid(input0))
        => /\ result # 1
           /\ heap[1].disposed = 0
           /\ heap[result].disposed = 0

\* modify returned without a pass: iterations = 0 and split = false
C8_Witness ==
    /\ Returned("modify") /\ Valid(input0)
    /\ arg.iterations = 0 /\ ~arg.split
    /\ TriangleCount(input0) = 2
    /\ result = 2

-----------------------------------------------------------------------------
(* Properties that compare two calls *)

\* the triangle soup modify works on: the input as verification leaves it,
\* expanded through its index when it has one
Soup(g) ==
    IF g.indexed THEN ToNonIndexed(Verified(g, 1), 1) ELSE Verified(g, 1)

\* triangle t (0-based) of a triangle soup has no area: its corners are collinear
ZeroArea(g, t) ==
    LET p == g.attributes["position"]
        a == Grid(fromBufferAttribute(p, 3 * t))
        b == Grid(fromBufferAttribute(p, 3 * t + 1))
        c == Grid(fromBufferAttribute(p, 3 * t + 2))
    IN Cross(VSub(b, a), VSub(c, a)) = <<0, 0, 0>>

ZeroAreaTriangles(g) == { t \in 0..(TriangleCount(g) - 1) : ZeroArea(g, t) }

\* the triangle soup g without its zero-area triangles, the others in order
WithoutZeroArea(g) ==
    LET kept == { t \in 0..(TriangleCount(g) - 1) : ~ZeroArea(g, t) }
        keep == Seal([ r \in 1..Cardinality(kept) |->
                    CHOOSE t \in kept : Cardinality({ u \in kept : u < t }) = r - 1 ])
    IN [ g EXCEPT !.attributes =
           SealF([ n \in DOMAIN g.attributes |->
               LET w == 3 * g.attributes[n].itemSize
               IN [ g.attributes[n] EXCEPT !.array =
                      Seal([ q \in 1..(w * Len(keep)) |->
                          g.attributes[n].array[w * keep[((q - 1) \div w) + 1] + ((q - 1) % w) + 1] ]) ] ]) ]

\* the geometry modify returns for the mesh g alone on the heap
ModifyOf(g, iterations, split, uvSmooth, flatOnly, maxTriangles) ==
    LET r == modify(<< g >>, 1, iterations, split, uvSmooth, flatOnly, maxTriangles)
    IN r.heap[r.ret]

\* the geometry smooth returns for the mesh g alone on the heap
SmoothOf(g, uvSmooth) ==
    LET r == smooth(<< g >>, 1, uvSmooth)
    IN r.heap[r.ret]

\* the geometry the call of this state returns when uvSmooth is u instead
WithUvSmooth(u) ==
    IF op = "modify"
    THEN ModifyOf(input0, arg.iterations, arg.split, u, arg.flatOnly, arg.maxTriangles)
    ELSE SmoothOf(input0, u)

\* C9: with split = true a zero-area triangle of the input contributes no
\* triangle to the output of modify: the positions and normals returned are
\* those returned for the input without its zero-area triangles, and a mesh of
\* zero-area triangles only gives an empty mesh that still passes verification.
\* With split = false the zero-area triangle is quadrisected like any other and
\* the output keeps every attribute aligned with position.
C9_DegenerateSafety ==
    (Returned("modify") /\ Valid(input0) /\ ZeroAreaTriangles(Soup(input0)) # {})
        => /\ arg.split =>
                LET ref == ModifyOf(WithoutZeroArea(Soup(input0)), arg.iterations, arg.split,
                                    arg.uvSmooth, arg.flatOnly, arg.maxTriangles)
                IN /\ Valid(heap[result])
                   /\ heap[result].attributes["position"].array = ref.attributes["position"].array
                   /\ heap[result].attributes["normal"].array = ref.attributes["normal"].array
                   /\ Cardinality(ZeroAreaTriangles(Soup(input0))) = TriangleCount(input0)
                        => TriangleCount(heap[result]) = 0
           /\ ~arg.split =>
                /\ Aligned(heap[result])
                /\ arg.maxTriangles = Infinity
                     => TriangleCount(heap[result]) = Pow4(arg.iterations) * TriangleCount(input0)

\* a mesh of one zero-area triangle and one other went through the edge split
\* and a round of Loop subdivision, and only the other triangle was subdivided
C9_Witness ==
    /\ Returned("modify") /\ Valid(input0)
    /\ TriangleCount(input0) = 2
    /\ Cardinality(ZeroAreaTriangles(Soup(input0))) = 1
    /\ arg.split /\ ~arg.flatOnly /\ arg.iterations = 1 /\ arg.maxTriangles = Infinity
    /\ TriangleCount(heap[result]) = 4

\* C10: for the same input and otherwise the same configuration, modify and
\* smooth give the same position, normal and every attribute other than uv
\* with uvSmooth = true as with uvSmooth = false.  (Stated at the calls with
\* uvSmooth = true, compared with the same call with uvSmooth = false.)
C10_UvSmoothNonInterference ==
    ((Returned("modify") \/ Returned("smooth")) /\ Valid(input0) /\ arg.uvSmooth)
        => LET other == WithUvSmooth(FALSE)
           IN /\ DOMAIN heap[result].attributes = DOMAIN other.attributes
              /\ \A n \in DOMAIN other.attributes \ {"uv"} :
                   /\ heap[result].attributes[n].itemSize = other.attributes[n].itemSize
                   /\ heap[result].attributes[n].array = other.attributes[n].array

\* a call with uvSmooth = true whose uv differ from those of the same call
\* with uvSmooth = false, after a round of Loop subdivision of two triangles
C10_Witness ==
    /\ Returned("modify") /\ Valid(input0) /\ arg.uvSmooth
    /\ ~arg.flatOnly /\ arg.iterations = 1 /\ arg.maxTriangles = Infinity
    /\ TriangleCount(input0) = 2
    /\ "uv" \in DOMAIN heap[result].attributes
    /\ heap[result].attributes["uv"].array # WithUvSmooth(FALSE).attributes["uv"].array
    /\ heap[result].attributes["position"].array # input0.attributes["position"].array

-----------------------------------------------------------------------------
(* Properties of the order of the passes inside modify *)

\* the positions in the log of the rounds of the subdivision loop: the passes
\* modify itself called (flat with flatOnly, smooth without) and the no-ops
RoundEvents ==
    Events("noop") \cup Events(IF arg.flatOnly THEN "flat" ELSE "smooth")

\* C11: in modify on an input that passes verification the edge split runs
\* exactly once when split is true and not at all when split is false; it runs
\* on the clone of the input, before the first round, and never between rounds.
C11_EdgeSplitOnce ==
    (Returned("modify") /\ Valid(input0))
        => /\ Cardinality(Events("edgeSplit")) = (IF arg.split THEN 1 ELSE 0)
           /\ \A i \in Events("edgeSplit") :
                /\ \A j \in Events("flat") \cup Events("smooth") \cup Events("noop") : i < j
                /\ i = 3 /\ log[1] = Event("clone", 1, 2) /\ log[2] = Event("copy", 2, 3)
                /\ log[i].on = 3

\* modify with split = true ran the edge split once and then two rounds of
\* Loop subdivision on a mesh of two triangles
C11_Witness ==
    /\ Returned("modify") /\ Valid(input0)
    /\ arg.split /\ ~arg.flatOnly /\ arg.iterations = 2 /\ arg.maxTriangles = Infinity
    /\ TriangleCount(input0) = 2
    /\ Cardinality(Events("edgeSplit")) = 1
    /\ Cardinality(Events("smooth")) = 2

\* the mesh round event i started from: modifiedGeometry, which a no-op names
\* itself and of which a pass works on a copy
RoundInput(i) ==
    IF log[i].ev = "noop" THEN log[i].on
    ELSE log[CHOOSE c \in Events("copy") : log[c].out = log[i].on].on

\* C12: modify performs exactly `iterations` rounds; in a round a pass runs if
\* and only if the mesh the round starts from has fewer than maxTriangles
\* triangles, otherwise the mesh is carried forward unchanged; after a no-op
\* round every later round is a no-op on the same mesh, which is returned.
C12_RoundGating ==
    (Returned("modify") /\ Valid(input0))
        => /\ Cardinality(RoundEvents) = arg.iterations
           /\ \A i \in RoundEvents :
                (log[i].ev # "noop") <=> (TriangleCount(heap[RoundInput(i)]) < arg.maxTriangles)
           /\ \A i \in Events("noop") :
                /\ result = log[i].on
                /\ \A j \in RoundEvents : j > i => log[j] = log[i]

-----------------------------------------------------------------------------
(* Properties of flat *)

\* the geometry flat returns for the mesh g alone on the heap
FlatOf(g) ==
    LET r == flat(<< g >>, 1)
    IN r.heap[r.ret]

\* the geometry edgeSplit returns for the mesh g alone on the heap
EdgeSplitOf(g) ==
    LET r == edgeSplit(<< g >>, 1)
    IN r.heap[r.ret]

\* flat applied m times
RECURSIVE FlatTimes(_, _)
FlatTimes(g, m) == IF m = 0 THEN g ELSE FlatTimes(FlatOf(g), m - 1)

\* the values attribute n gives the vertices of g, one tuple a vertex
VertexValues(g, n) ==
    LET a == g.attributes[n]
    IN { SubSeq(a.array, a.itemSize * v + 1, a.itemSize * v + a.itemSize) :
           v \in 0..((Len(a.array) \div a.itemSize) - 1) }

\* a and b are the same mesh: the same index and the same attributes
SameMesh(a, b) ==
    /\ a.indexed = b.indexed /\ a.index = b.index
    /\ SameAttributes(a, b)

\* out is flat applied m times to start and keeps every vertex value of start
FlatOnlyResult(start, out, m) ==
    /\ SameMesh(out, FlatTimes(start, m))
    /\ \A n \in DOMAIN start.attributes :
         VertexValues(start, n) \subseteq VertexValues(out, n)

\* the mesh the rounds of this modify call start from: the input as
\* verification leaves it, edge-split when split is true
RoundsStart ==
    IF arg.split THEN EdgeSplitOf(input0) ELSE Verified(input0, 1)

\* C13: with flatOnly = true no round applies the Loop weighting: modify
\* returns flat applied once a round (iterations times with maxTriangles =
\* Infinity) to the input, edge-split first when split is true; every vertex
\* value of that mesh, for every attribute, is a vertex value of the output;
\* and the result is the same with uvSmooth true and false.
C13_FlatOnly ==
    (Returned("modify") /\ Valid(input0) /\ arg.flatOnly)
        => /\ Events("smooth") = {}
           /\ arg.maxTriangles = Infinity => Cardinality(Events("flat")) = arg.iterations
           /\ FlatOnlyResult(RoundsStart, heap[result], Cardinality(Events("flat")))
           /\ SameMesh(heap[result], WithUvSmooth(~arg.uvSmooth))

\* the value of attribute a at vertex v, one number a component
Tuple(a, v) == SubSeq(a.array, a.itemSize * v + 1, a.itemSize * v + a.itemSize)

\* the midpoint of the values of attribute a at vertices u and v
MidTuple(a, u, v) ==
    [ c \in 1..a.itemSize |->
        Half(Add(a.array[a.itemSize * u + c], a.array[a.itemSize * v + c])) ]

\* the twelve vertices flat is to emit for a triangle with corners 0, 1, 2 and
\* midpoints m01 = 3, m12 = 4, m20 = 5
EmitOrder == << 0, 3, 5,   1, 4, 3,   2, 5, 4,   3, 4, 5 >>

\* corner or midpoint `code` of triangle t of attribute a
CornerOrMid(a, t, code) ==
    CASE code <= 2 -> Tuple(a, 3 * t + code)
      [] code = 3  -> MidTuple(a, 3 * t, 3 * t + 1)
      [] code = 4  -> MidTuple(a, 3 * t + 1, 3 * t + 2)
      [] OTHER     -> MidTuple(a, 3 * t + 2, 3 * t)

\* attribute b is attribute a quadrisected in the order of EmitOrder
Quadrisected(a, b, triangles) ==
    /\ b.itemSize = a.itemSize
    /\ Len(b.array) = 12 * a.itemSize * triangles
    /\ \A t \in 0..(triangles - 1), j \in 0..11 :
         Tuple(b, 12 * t + j) = CornerOrMid(a, t, EmitOrder[j + 1])

\* every attribute of out is the attribute of in, quadrisected
FlatEmits(in, out) ==
    /\ DOMAIN out.attributes = DOMAIN in.attributes
    /\ \A n \in DOMAIN in.attributes :
         Quadrisected(in.attributes[n], out.attributes[n], TriangleCount(in))

\* C14: for every attribute and every triangle (v0, v1, v2) of the input, with
\* midpoints m01, m12, m20, flat emits exactly the four triangles (v0, m01,
\* m20), (v1, m12, m01), (v2, m20, m12), (m01, m12, m20), in that order, so
\* that the vertices emitted for a triangle are its corners and its midpoints.
C14_FlatEmission ==
    (Returned("flat") /\ Valid(input0))
        => FlatEmits(Soup(input0), heap[result])

-----------------------------------------------------------------------------
(* Properties of smooth *)

\* the position of vertex v (0-based) of a triangle soup
PositionOf(g, v) == fromBufferAttribute(g.attributes["position"], v)

\* edge e of triangle t runs from corner e to corner e + 1; the third corner
\* is opposite to it
EdgeFrom(t, e)     == 3 * t + e
EdgeTo(t, e)       == 3 * t + ((e + 1) % 3)
EdgeOpposite(t, e) == 3 * t + ((e + 2) % 3)

\* the edges of the triangles of g, as pairs of a triangle and an edge number
EdgesOf(g) == (0..(TriangleCount(g) - 1)) \X (0..2)

\* the end points of an edge, as a set of positions
EndPoints(g, x) ==
    { PositionOf(g, EdgeFrom(x[1], x[2])), PositionOf(g, EdgeTo(x[1], x[2])) }

\* the edges of other triangles with the end points of edge x
Adjacent(g, x) ==
    { y \in EdgesOf(g) : y[1] # x[1] /\ EndPoints(g, y) = EndPoints(g, x) }

\* edge x is interior: it has two different end points, is an edge of exactly
\* two triangles, and its midpoint has not the key of a vertex of the mesh
InteriorEdge(g, x) ==
    /\ Cardinality(EndPoints(g, x)) = 2
    /\ Cardinality({ y \in EdgesOf(g) : EndPoints(g, y) = EndPoints(g, x) }) = 2
    /\ Cardinality(Adjacent(g, x)) = 1
    /\ \A v \in 0..(3 * TriangleCount(g) - 1) :
         hashFromVector(PositionOf(g, v))
           # hashFromVector(Midpoint(PositionOf(g, EdgeFrom(x[1], x[2])),
                                     PositionOf(g, EdgeTo(x[1], x[2]))))

\* the vertices of the quadrisected triangle t that are the midpoint of edge e
MidpointVertices(t, e) ==
    { 12 * t + j : j \in { j \in 0..11 : EmitOrder[j + 1] = 3 + e } }

\* 8 * P = 3 * A + 3 * B + C + D
IsEdgeStencil(P, A, B, C, D) ==
    \A c \in 1..3 : 8 * P[c] = 3 * A[c] + 3 * B[c] + C[c] + D[c]

\* the midpoint vertices of edge x have in out the edge-point position for
\* the opposite vertices of x and of the adjacent edge y
StencilAt(in, out, x, y) ==
    \A m \in MidpointVertices(x[1], x[2]) :
        IsEdgeStencil(PositionOf(out, m),
                      PositionOf(in, EdgeFrom(x[1], x[2])),
                      PositionOf(in, EdgeTo(x[1], x[2])),
                      PositionOf(in, EdgeOpposite(x[1], x[2])),
                      PositionOf(in, EdgeOpposite(y[1], y[2])))

\* every midpoint of an interior edge of in has in out the edge-point position
EdgeStencil(in, out) ==
    \A x \in EdgesOf(in) :
        InteriorEdge(in, x) => \A y \in Adjacent(in, x) : StencilAt(in, out, x, y)

\* the position key and the normal key of vertex v
PointKey(g, v) ==
    << hashFromVector(PositionOf(g, v)),
       hashFromVector(fromBufferAttribute(g.attributes["normal"], v)) >>

\* the same, for the interior edges whose opposite vertices differ in position
\* key or in normal key
EdgeStencilDistinct(in, out) ==
    \A x \in EdgesOf(in) :
        InteriorEdge(in, x) =>
            \A y \in Adjacent(in, x) :
                PointKey(in, EdgeOpposite(x[1], x[2])) # PointKey(in, EdgeOpposite(y[1], y[2]))
                    => StencilAt(in, out, x, y)

OthersOfTriangle(v) == { 3 * (v \div 3) + c : c \in 0..2 } \ {v}

\* the neighbours of the mesh point of vertex v: the keys of the other two
\* vertices of every triangle with a vertex at v's position key
NeighbourKeys(g, v) ==
    { PointKey(g, u) : u \in { u \in 0..(3 * TriangleCount(g) - 1) :
        \E w \in OthersOfTriangle(u) :
            hashFromVector(PositionOf(g, w)) = hashFromVector(PositionOf(g, v)) } }

\* the value attribute n gives the first vertex with a key
ValueOfKey(g, n, key) ==
    fromBufferAttribute(g.attributes[n],
        CHOOSE u \in 0..(3 * TriangleCount(g) - 1) :
            /\ PointKey(g, u) = key
            /\ \A w \in 0..(u - 1) : PointKey(g, w) # key)

\* the sum over the keys of beta times the value of the key
RECURSIVE NeighbourSum(_, _, _, _)
NeighbourSum(keys, g, n, beta) ==
    IF keys = {} THEN <<0, 0, 0>>
    ELSE LET key == CHOOSE x \in keys : TRUE
         IN VAdd(VMulQ(ValueOfKey(g, n, key), beta, BetaDen),
                 NeighbourSum(keys \ {key}, g, n, beta))

\* (1 - k beta) old + beta (sum of the k neighbour values), beta = LoopBeta(k)
RetainedValue(g, n, v, keys, k) ==
    VAdd(VMulQ(fromBufferAttribute(g.attributes[n], v), BetaDen - k * LoopBeta(k), BetaDen),
         NeighbourSum(keys, g, n, LoopBeta(k)))

\* the vertices of the quadrisected mesh that are corner c of triangle t
CornerVertices(t, c) ==
    { 12 * t + j : j \in { j \in 0..11 : EmitOrder[j + 1] = c } }

\* position and normal of every original vertex of in are in out the
\* retained-vertex combination of the old value and the neighbour values
RetainedRule(in, out) ==
    \A v \in 0..(3 * TriangleCount(in) - 1), n \in {"position", "normal"} :
        \A m \in CornerVertices(v \div 3, v % 3) :
            fromBufferAttribute(out.attributes[n], m)
                = RetainedValue(in, n, v, NeighbourKeys(in, v),
                                Cardinality(NeighbourKeys(in, v)))

\* an attribute with one value at every vertex keeps it at the original vertices
UnitySum(in, out) ==
    \A n \in {"normal"} :
        Cardinality({ fromBufferAttribute(in.attributes[n], v) :
                        v \in 0..(3 * TriangleCount(in) - 1) }) = 1
            => \A v \in 0..(3 * TriangleCount(in) - 1) :
                 \A m \in CornerVertices(v \div 3, v % 3) :
                     fromBufferAttribute(out.attributes[n], m)
                         = fromBufferAttribute(in.attributes[n], v)

\* the valences the weight table is checked for
Valences == 3..Len(LoopBetaTable)

\* C16: for an original vertex with k neighbours smooth computes
\* (1 - k beta(k)) old + beta(k) (sum of exactly k neighbour values); the
\* retained weight and the neighbour weights sum to 1, so that a value shared
\* by all vertices is kept; and k beta(k) < 1 for every k >= 3.
C16_PartitionOfUnity ==
    /\ \A k \in Valences : k * LoopBeta(k) < BetaDen /\ LoopBeta(k) > 0
    /\ (Returned("smooth") /\ Valid(input0))
         => /\ RetainedRule(Soup(input0), heap[result])
            /\ UnitySum(Soup(input0), heap[result])

\* smooth moved a vertex with three or more neighbours of a mesh whose normals
\* are all the same
C16_Witness ==
    /\ Returned("smooth") /\ Valid(input0)
    /\ TriangleCount(input0) = 2
    /\ Cardinality({ fromBufferAttribute(Soup(input0).attributes["normal"], v) : v \in 0..5 }) = 1
    /\ \E v \in 0..5 :
         /\ Cardinality(NeighbourKeys(Soup(input0), v)) >= 3
         /\ PositionOf(heap[result], 12 * (v \div 3) + 3 * (v % 3)) # PositionOf(Soup(input0), v)

-----------------------------------------------------------------------------
(* Properties of the attribute lists *)

\* the attribute names of the input as verification leaves it
VerifiedNames == DOMAIN input0.attributes \cup {"normal"}

\* C17: gatherAttributes returns position, normal, uv and every attribute name
\* of the mesh, and a pass skips the names the mesh has not: the meshes
\* edgeSplit, flat, smooth and modify return, and every mesh made on the way,
\* have exactly the attribute names of the verified input, with the widths of
\* the input; none is dropped and none (uv) is invented.
C17_AttributeSet ==
    (pc = "done" /\ Valid(input0))
        => /\ gatherAttributes(heap[1]) = VerifiedNames \cup {"uv"}
           /\ \A id \in 1..Len(heap) :
                /\ DOMAIN heap[id].attributes = VerifiedNames
                /\ \A n \in DOMAIN input0.attributes :
                     heap[id].attributes[n].itemSize = input0.attributes[n].itemSize

\* modify ran the edge split and a round on a mesh with position only: the
\* result has position and normal and no uv
C17_Witness ==
    /\ Returned("modify")
    /\ DOMAIN input0.attributes = {"position"} /\ input0.isBufferGeometry
    /\ TriangleCount(input0) = 2
    /\ arg.split /\ ~arg.flatOnly /\ arg.iterations = 1 /\ arg.maxTriangles = Infinity
    /\ DOMAIN heap[result].attributes = {"position", "normal"}
    /\ TriangleCount(heap[result]) >= 8

\* the mesh vertices joined to the mesh vertex of v by a triangle edge, as
\* position keys: the valence of v is their number
NeighbourPositions(g, v) ==
    { hashFromVector(PositionOf(g, u)) : u \in { u \in 0..(3 * TriangleCount(g) - 1) :
        \E w \in OthersOfTriangle(u) :
            hashFromVector(PositionOf(g, w)) = hashFromVector(PositionOf(g, v)) } }

\* k = neighbors.size for the vertices with the position hash of v
NeighborsSize(tables, g, v) ==
    Cardinality(tables.existingNeighbors[hashFromVector(PositionOf(g, v))])

\* for every vertex of g, k is the valence
ValenceIsK(tables, g) ==
    \A v \in 0..(3 * TriangleCount(g) - 1) :
        NeighborsSize(tables, g, v) = Cardinality(NeighbourPositions(g, v))

\* C18: for every original vertex the k = |NeighborSet| that smooth uses in
\* the Loop weight formula is the valence of the vertex in the mesh before
\* subdivision: the number of distinct mesh vertices joined to it by a
\* triangle edge, also when the vertex records around it have different normals.
C18_Valence ==
    (Returned("smooth") /\ Valid(input0))
        => ValenceIsK(SmoothTables(Soup(input0)), Soup(input0))

-----------------------------------------------------------------------------
(* Properties of edgeSplit *)

\* the position keys of the two ends of edge x
EndKeys(g, x) ==
    { hashFromVector(PositionOf(g, EdgeFrom(x[1], x[2]))),
      hashFromVector(PositionOf(g, EdgeTo(x[1], x[2]))) }

\* the key of the face normal of triangle t
FaceNormalKey(g, t) ==
    hashFromVector(calcNormal(PositionOf(g, 3 * t), PositionOf(g, 3 * t + 1),
                              PositionOf(g, 3 * t + 2)))

\* another triangle with area has an edge with the end keys of edge x and the
\* face normal key of the triangle of x
SharedWithOther(g, x) ==
    \E y \in EdgesOf(g) :
        /\ y[1] # x[1]
        /\ ~ZeroArea(g, y[1])
        /\ EndKeys(g, y) = EndKeys(g, x)
        /\ FaceNormalKey(g, y[1]) = FaceNormalKey(g, x[1])

\* edgeSplit has more than one entry for edge x: edgeCount > 1
CountedShared(table, x) ==
    edgeCount(table, table[x[1] + 1].hashes[2 * x[2] + 1]) > 1

\* the edges of the triangles with area are counted as shared exactly when
\* they are shared with another triangle
SharedDetection(table, g) ==
    \A x \in EdgesOf(g) :
        ~ZeroArea(g, x[1]) => (CountedShared(table, x) <=> SharedWithOther(g, x))

\* C19: in edgeSplit an edge of a non-degenerate triangle is classified as
\* shared (count > 1) if and only if another non-degenerate triangle has an
\* edge with the same two end position keys, in either direction, and the same
\* face normal key; a triangle does not make its own edge shared, nor does a
\* neighbour with another face normal or a degenerate neighbour.
C19_SharedEdgeDetection ==
    (Returned("edgeSplit") /\ Valid(input0))
        => SharedDetection(EdgeTable(Soup(input0)), Soup(input0))

\* the edges of a triangle whose midpoint is a corner of every sub-triangle
\* edgeSplit made of it: the edge the triangle was split at first
PrimaryEdges(pattern) ==
    { e \in 0..2 : \A i \in 1..Len(pattern) :
        3 + e \in { pattern[i][1], pattern[i][2], pattern[i][3] } }

\* the squared length of edge x
LengthOf(g, x) ==
    distanceToSq(PositionOf(g, EdgeFrom(x[1], x[2])), PositionOf(g, EdgeTo(x[1], x[2])))

\* triangle t, with the sub-triangles `pattern`, has one primary edge: a shared
\* edge, no shorter than its other shared edges, whose midpoint is in out
PrimaryOf(g, out, t, pattern) ==
    /\ Len(pattern) >= 2
    /\ Cardinality(PrimaryEdges(pattern)) = 1
    /\ \A e \in PrimaryEdges(pattern) :
         /\ SharedWithOther(g, <<t, e>>)
         /\ \A f \in 0..2 :
              SharedWithOther(g, <<t, f>>) => LengthOf(g, <<t, e>>) >= LengthOf(g, <<t, f>>)
         /\ Midpoint(PositionOf(g, EdgeFrom(t, e)), PositionOf(g, EdgeTo(t, e)))
              \in VertexValues(out, "position")

\* every triangle with area and a shared edge has a primary edge
PrimarySelection(patterns, g, out) ==
    \A t \in 0..(TriangleCount(g) - 1) :
        (~ZeroArea(g, t) /\ \E e \in 0..2 : SharedWithOther(g, <<t, e>>))
            => PrimaryOf(g, out, t, patterns[t + 1])

-----------------------------------------------------------------------------
(* Properties of the sub-triangles of edgeSplit *)

\* the number of sub-triangles edgeSplit emitted before those of triangle t
RECURSIVE EmittedBefore(_, _)
EmittedBefore(patterns, t) ==
    IF t = 0 THEN 0 ELSE EmittedBefore(patterns, t - 1) + Len(patterns[t])

\* the triangles of the output of edgeSplit that were made of triangle t
SubTriangles(patterns, t) ==
    { EmittedBefore(patterns, t) + i : i \in 0..(Len(patterns[t + 1]) - 1) }

\* the positions of the corners of the sub-triangles of triangle t
SubPositions(patterns, out, t) ==
    { PositionOf(out, 3 * s + c) : s \in SubTriangles(patterns, t), c \in 0..2 }

\* the midpoint of edge x
MidpointOf(g, x) ==
    Midpoint(PositionOf(g, EdgeFrom(x[1], x[2])), PositionOf(g, EdgeTo(x[1], x[2])))

\* triangle t is emitted as it is: one sub-triangle with its corners in order
EmittedUnchanged(patterns, g, out, t) ==
    /\ Len(patterns[t + 1]) = 1
    /\ \A c \in 0..2 :
         PositionOf(out, 3 * EmittedBefore(patterns, t) + c) = PositionOf(g, 3 * t + c)

\* the triangles with area are split at the midpoints of their shared edges
\* and at no other edge
SplitWhereShared(patterns, g, out) ==
    \A t \in 0..(TriangleCount(g) - 1) :
        ~ZeroArea(g, t) =>
            /\ \A e \in 0..2 :
                 (MidpointOf(g, <<t, e>>) \in SubPositions(patterns, out, t))
                     <=> SharedWithOther(g, <<t, e>>)
            /\ (\A e \in 0..2 : ~SharedWithOther(g, <<t, e>>))
                 => EmittedUnchanged(patterns, g, out, t)

\* C21: in edgeSplit, for every non-degenerate triangle and each of its edges,
\* the sub-triangles emitted for the triangle have a vertex at the midpoint of
\* the edge if and only if the edge is shared: an unshared edge is left
\* unsplit, a shared edge is split by every triangle sharing it, and a
\* triangle without shared edge is emitted unchanged, its corners in order.
C21_SplitIffShared ==
    (Returned("edgeSplit") /\ Valid(input0))
        => SplitWhereShared(SplitPatterns(Soup(input0)), Soup(input0), heap[result])

\* the value of attribute a at vertex v, NaN where the array has no element
TupleAt(a, v) ==
    [ c \in 1..a.itemSize |-> Get(a.array, a.itemSize * v + c - 1) ]

\* attribute b holds, at every vertex edgeSplit emitted, the corner or the
\* midpoint of attribute a that the pattern has there
SplitLike(patterns, a, b) ==
    /\ b.itemSize = a.itemSize
    /\ \A t \in 1..Len(patterns) :
         \A i \in 1..Len(patterns[t]), c \in 1..3 :
             TupleAt(b, 3 * (EmittedBefore(patterns, t - 1) + i - 1) + c - 1)
                 = CornerOrMid(a, t - 1, patterns[t][i][c])

\* every attribute of out is the attribute of in, split like position
SplitAlike(patterns, in, out) ==
    \A n \in DOMAIN in.attributes :
        SplitLike(patterns, in.attributes[n], out.attributes[n])

\* C22: in edgeSplit every attribute is split with the pattern of position: at
\* every output vertex the value of every attribute, in every component of
\* tuples of width 1 to 4, is the value at the same original vertex, or the
\* midpoint of the values at the same two original vertices, as the position.
C22_SplitAllAttributes ==
    (Returned("edgeSplit") /\ Valid(input0))
        => SplitAlike(SplitPatterns(Soup(input0)), Soup(input0), heap[result])

-----------------------------------------------------------------------------
(* Properties of the resolution of the vertices in smooth *)

\* the position key is the key of a vertex of g: it has a neighbour set
IsOriginalKey(g, key) ==
    \E v \in 0..(3 * TriangleCount(g) - 1) : hashFromVector(PositionOf(g, v)) = key

\* the opposite vertices, as point keys, of the edges of g whose midpoint has
\* the position key
OppositeKeys(g, key) ==
    { PointKey(g, EdgeOpposite(x[1], x[2])) :
        x \in { x \in EdgesOf(g) : hashFromVector(MidpointOf(g, x)) = key } }

\* the vertices of the quadrisected mesh that the weighting leaves alone
Unresolved(in, flatMesh) ==
    { m \in 0..(12 * TriangleCount(in) - 1) :
        /\ ~IsOriginalKey(in, hashFromVector(PositionOf(flatMesh, m)))
        /\ Cardinality(OppositeKeys(in, hashFromVector(PositionOf(flatMesh, m)))) # 2 }

\* a vertex of in with the position key
VertexAt(in, key) ==
    CHOOSE v \in 0..(3 * TriangleCount(in) - 1) : hashFromVector(PositionOf(in, v)) = key

\* the retained-vertex combination of the flat position at m
NeighbourRule(in, flatMesh, m, keys) ==
    VAdd(VMulQ(PositionOf(flatMesh, m),
               BetaDen - Cardinality(keys) * LoopBeta(Cardinality(keys)), BetaDen),
         NeighbourSum(keys, in, "position", LoopBeta(Cardinality(keys))))

\* the unresolved vertices keep in out every attribute value of flatMesh, and
\* a vertex with the key of an original vertex gets the retained-vertex rule
\* whatever its opposites
Resolution(in, flatMesh, out) ==
    /\ \A m \in Unresolved(in, flatMesh), n \in DOMAIN out.attributes :
         TupleAt(out.attributes[n], m) = TupleAt(flatMesh.attributes[n], m)
    /\ \A m \in 0..(12 * TriangleCount(in) - 1) :
         IsOriginalKey(in, hashFromVector(PositionOf(flatMesh, m)))
             => PositionOf(out, m)
                  = NeighbourRule(in, flatMesh, m,
                        NeighbourKeys(in, VertexAt(in, hashFromVector(PositionOf(flatMesh, m)))))

\* C23: in smooth a vertex of the quadrisected mesh is resolved by its position
\* key against the neighbour sets first and the opposite sets second; a vertex
\* without neighbour set whose opposite set is missing or has not exactly two
\* members keeps the flat value in every attribute.
C23_Resolution ==
    (Returned("smooth") /\ Valid(input0))
        => Resolution(Soup(input0), FlatOf(Soup(input0)), heap[result])

\* smooth ran with uvSmooth on a mesh of two triangles with uv that has
\* boundary midpoints, and moved other vertices
C23_Witness ==
    /\ Returned("smooth") /\ Valid(input0) /\ arg.uvSmooth
    /\ TriangleCount(input0) = 2
    /\ "uv" \in DOMAIN input0.attributes
    /\ Unresolved(Soup(input0), FlatOf(Soup(input0))) # {}
    /\ heap[result].attributes["position"].array
         # FlatOf(Soup(input0)).attributes["position"].array

\* the value the weighting rule gives attribute n at vertex m of the
\* quadrisected mesh: the retained-vertex rule at the key of an original
\* vertex, the edge rule with two opposites, the flat value otherwise
WeightingRule(in, flatMesh, n, m, key) ==
    IF IsOriginalKey(in, key)
    THEN VAdd(VMulQ(fromBufferAttribute(flatMesh.attributes[n], m),
                    BetaDen - Cardinality(NeighbourKeys(in, VertexAt(in, key)))
                                * LoopBeta(Cardinality(NeighbourKeys(in, VertexAt(in, key)))),
                    BetaDen),
              NeighbourSum(NeighbourKeys(in, VertexAt(in, key)), in, n,
                           LoopBeta(Cardinality(NeighbourKeys(in, VertexAt(in, key))))))
    ELSE IF Cardinality(OppositeKeys(in, key)) = 2
    THEN VAdd(VMulQ(fromBufferAttribute(flatMesh.attributes[n], m),
                    BetaDen - 2 * EdgeBeta, BetaDen),
              NeighbourSum(OppositeKeys(in, key), in, n, EdgeBeta))
    ELSE fromBufferAttribute(flatMesh.attributes[n], m)

\* attribute n of out is the weighting rule applied at every vertex
Weighted(in, flatMesh, out, n) ==
    \A m \in 0..(12 * TriangleCount(in) - 1) :
        \A c \in 1..out.attributes[n].itemSize :
            TupleAt(out.attributes[n], m)[c]
                = WeightingRule(in, flatMesh, n, m, hashFromVector(PositionOf(flatMesh, m)))[c]

\* uv of out is uv of flatMesh without uvSmooth, and with uvSmooth it is
\* weighted as position and normal are
UvRule(in, flatMesh, out, uvSmooth) ==
    IF uvSmooth
    THEN \A n \in {"position", "normal", "uv"} : Weighted(in, flatMesh, out, n)
    ELSE /\ out.attributes["uv"].array = flatMesh.attributes["uv"].array
         /\ \A n \in {"position", "normal"} : Weighted(in, flatMesh, out, n)

\* C24: with uvSmooth = false the uv attribute of smooth(mesh) is, vertex for
\* vertex, the uv attribute of flat(mesh); with uvSmooth = true uv is given by
\* the weighting rule that gives position and normal.
C24_UvRule ==
    (Returned("smooth") /\ Valid(input0) /\ "uv" \in DOMAIN input0.attributes)
        => UvRule(Soup(input0), FlatOf(Soup(input0)), heap[result], arg.uvSmooth)

\* smooth without uvSmooth moved positions of a mesh of two triangles and kept
\* the uv of flat, which differ from the uv that uvSmooth gives
C24_Witness ==
    /\ Returned("smooth") /\ Valid(input0) /\ ~arg.uvSmooth
    /\ "uv" \in DOMAIN input0.attributes
    /\ TriangleCount(input0) = 2
    /\ heap[result].attributes["position"].array
         # FlatOf(Soup(input0)).attributes["position"].array
    /\ heap[result].attributes["uv"].array # WithUvSmooth(TRUE).attributes["uv"].array

-----------------------------------------------------------------------------
(* Properties of the lifecycle of the meshes *)

\* the kinds of event at which a pass has produced its output
PassKinds == {"edgeSplit", "flat", "smooth"}

\* the positions in the log of the dispose events on mesh id
DisposalsOf(id) == { i \in Events("dispose") : log[i].on = id }

\* dispose event i comes after the making of its mesh, after a pass that
\* produced another mesh since, and after every other event on its mesh
DisposedWhenConsumed(i) ==
    /\ \E c \in 1..(i - 1) :
         /\ log[c].ev # "dispose" /\ log[c].out = log[i].on
         /\ \E j \in (c + 1)..(i - 1) : log[j].ev \in PassKinds /\ log[j].out # log[i].on
    /\ \A j \in DOMAIN log :
         (j # i /\ (log[j].on = log[i].on \/ log[j].out = log[i].on)) => j < i

\* C25: in modify every intermediate mesh (the clone, the working copies of
\* edgeSplit, flat and smooth, the flat stage of smooth, the input of each
\* round that ran a pass) is disposed exactly once, after the stage that
\* consumes it has produced its output, and is not used afterwards; the mesh
\* returned and the caller's mesh are never disposed.
C25_Lifecycle ==
    (Returned("modify") /\ Valid(input0))
        => /\ heap[1].disposed = 0 /\ DisposalsOf(1) = {}
           /\ heap[result].disposed = 0 /\ DisposalsOf(result) = {}
           /\ \A id \in 2..Len(heap) :
                id # result =>
                    /\ heap[id].disposed = 1
                    /\ Cardinality(DisposalsOf(id)) = 1
           /\ \A i \in Events("dispose") : DisposedWhenConsumed(i)

\* modify ran the edge split and two rounds of Loop subdivision, and every
\* mesh it made but the last is disposed
C25_Witness ==
    /\ Returned("modify") /\ Valid(input0)
    /\ arg.split /\ ~arg.flatOnly /\ arg.iterations = 2 /\ arg.maxTriangles = Infinity
    /\ TriangleCount(input0) = 2
    /\ Len(heap) = 12
    /\ Cardinality(Events("dispose")) = 10

-----------------------------------------------------------------------------
(* The scratch objects.  LoopSubdivision keeps its temporaries at module    *)
(* level (lines 66-89), so they outlive every call.  The walk below follows *)
(* the statements of edgeSplit, flat and smooth that read or write them,    *)
(* with every data-dependent branch taken both ways, and records which      *)
(* components the running pass has written.  modify runs the passes one     *)
(* after the other (lines 119-139), which is a sequence of such walks.      *)

MaxCalls == 2

Components == << "x", "y", "z", "w" >>

\* the first n components of the scratch object r
Comp(r, n) == { << r, Components[c] >> : c \in 1..n }

\* Vector3 holds x, y and z
Vec(r) == Comp(r, 3)

VertexVectors == << "_vertex[0]", "_vertex[1]", "_vertex[2]" >>

PositionVectors == << "_position[0]", "_position[1]", "_position[2]" >>

Vectors ==
    { "_average", "_center", "_midpoint", "_normal", "_temp",
      "_vector0", "_vector1", "_vector2", "_vec0to1", "_vec1to2", "_vec2to0" }
    \cup { VertexVectors[i] : i \in 1..3 } \cup { PositionVectors[i] : i \in 1..3 }

TriangleCorners == { << "_triangle", c >> : c \in { "a", "b", "c" } }

\* the components that `new THREE.Vector3()` and `new THREE.Triangle()` define
Constructed == UNION { Vec(r) : r \in Vectors } \cup TriangleCorners

Statement(reads, writes) == [ reads |-> reads, writes |-> writes ]

\* the statements on whole vectors: fromBufferAttribute writes x, y and z;
\* hashFromVector, distanceTo, copy().add() and subVectors read x, y and z
VectorStatements ==
    \* edgeSplit, Edges
       173 :> Statement({}, {"_vector0"})
    @@ 174 :> Statement({}, {"_vector1"})
    @@ 175 :> Statement({}, {"_vector2"})
    @@ 176 :> Statement({}, {"_normal"})
    @@ 177 :> Statement({"_vector0"}, {})
    @@ 178 :> Statement({"_vector1"}, {})
    @@ 179 :> Statement({"_vector2"}, {})
    @@ 191 :> Statement({"_normal"}, {})
    @@ 211 :> Statement({"_vector0", "_vector1"}, {})
    @@ 212 :> Statement({"_vector1", "_vector2"}, {})
    @@ 213 :> Statement({"_vector2", "_vector0"}, {})
    \* calcNormal(_normal, _vector0, _vector1, _vector2)
    @@ 585 :> Statement({"_vector0", "_vector1"}, {"_temp"})
    @@ 586 :> Statement({"_vector1", "_vector2"}, {"_normal"})
    @@ 587 :> Statement({"_normal", "_temp"}, {"_normal"})
    \* edgeSplit, Build Geometry
    @@ 234 :> Statement({}, {"_vector0"})
    @@ 235 :> Statement({}, {"_vector1"})
    @@ 236 :> Statement({}, {"_vector2"})
    @@ 262 :> Statement({"_vector0", "_vector1"}, {"_center"})
    @@ 264 :> Statement({"_vector2", "_vector0"}, {"_midpoint"})
    @@ 271 :> Statement({"_vector1", "_vector2"}, {"_midpoint"})
    @@ 279 :> Statement({"_vector1", "_vector2"}, {"_center"})
    @@ 281 :> Statement({"_vector0", "_vector1"}, {"_midpoint"})
    @@ 288 :> Statement({"_vector2", "_vector0"}, {"_midpoint"})
    @@ 296 :> Statement({"_vector2", "_vector0"}, {"_center"})
    @@ 298 :> Statement({"_vector1", "_vector2"}, {"_midpoint"})
    @@ 305 :> Statement({"_vector0", "_vector1"}, {"_midpoint"})
    \* flat
    @@ 364 :> Statement({}, {"_vector0"})
    @@ 365 :> Statement({}, {"_vector1"})
    @@ 366 :> Statement({}, {"_vector2"})
    @@ 369 :> Statement({"_vector0", "_vector1"}, {"_vec0to1"})
    @@ 370 :> Statement({"_vector1", "_vector2"}, {"_vec1to2"})
    @@ 371 :> Statement({"_vector2", "_vector0"}, {"_vec2to0"})
    \* smooth, Existing Vertex Hashes
    @@ 413 :> Statement({}, {"_vertex[0]"})
    @@ 414 :> Statement({}, {"_vertex[1]"})
    @@ 415 :> Statement({}, {"_vertex[2]"})
    @@ 425 :> Statement({}, {"_normal"})
    @@ 427 :> Statement({"_normal"}, {})
    @@ 444 :> Statement({"_vertex[0]", "_vertex[1]"}, {"_vec0to1"})
    @@ 445 :> Statement({"_vertex[1]", "_vertex[2]"}, {"_vec1to2"})
    @@ 446 :> Statement({"_vertex[2]", "_vertex[0]"}, {"_vec2to0"})
    @@ 447 :> Statement({"_vec0to1"}, {})
    @@ 448 :> Statement({"_vec1to2"}, {})
    @@ 449 :> Statement({"_vec2to0"}, {})
    \* smooth, Build Geometry
    @@ 500 :> Statement({}, {"_average"})
    @@ 501 :> Statement({"_average"}, {"_average"})
    @@ 513 :> Statement({}, {"_average"})
    @@ 514 :> Statement({"_average"}, {"_average"})

\* the statements on _vertex[v] and _position[v]
IndexedStatement(l, i) ==
    CASE l = 421          -> Statement({VertexVectors[i + 1]}, {})
      [] l \in {470, 475} -> Statement({}, {VertexVectors[i + 1]})
      [] l = 476          -> Statement({}, {PositionVectors[i + 1]})
      [] l = 478          -> Statement({PositionVectors[i + 1]}, {})
      [] l \in {497, 510} -> Statement({VertexVectors[i + 1]}, {VertexVectors[i + 1]})
      [] l \in {502, 515} -> Statement({VertexVectors[i + 1], "_average"}, {VertexVectors[i + 1]})

IndexedLines == {421, 470, 475, 476, 478, 497, 502, 510, 515}

\* the calls setTriangle(floatArray, index, step, vec0, vec1, vec2)
setTriangleCalls ==
       251 :> << "_vector0", "_vector1", "_vector2" >>
    @@ 265 :> << "_vector0", "_center", "_midpoint" >>
    @@ 266 :> << "_center", "_vector2", "_midpoint" >>
    @@ 268 :> << "_vector0", "_center", "_vector2" >>
    @@ 272 :> << "_center", "_vector1", "_midpoint" >>
    @@ 273 :> << "_midpoint", "_vector2", "_center" >>
    @@ 275 :> << "_vector1", "_vector2", "_center" >>
    @@ 282 :> << "_center", "_midpoint", "_vector1" >>
    @@ 283 :> << "_midpoint", "_center", "_vector0" >>
    @@ 285 :> << "_vector1", "_center", "_vector0" >>
    @@ 289 :> << "_center", "_vector2", "_midpoint" >>
    @@ 290 :> << "_midpoint", "_vector0", "_center" >>
    @@ 292 :> << "_vector2", "_vector0", "_center" >>
    @@ 299 :> << "_vector2", "_center", "_midpoint" >>
    @@ 300 :> << "_center", "_vector1", "_midpoint" >>
    @@ 302 :> << "_vector2", "_center", "_vector1" >>
    @@ 306 :> << "_vector0", "_midpoint", "_center" >>
    @@ 307 :> << "_midpoint", "_vector1", "_center" >>
    @@ 309 :> << "_vector0", "_vector1", "_center" >>
    @@ 313 :> << "_vector0", "_vector1", "_vector2" >>
    @@ 374 :> << "_vector0", "_vec0to1", "_vec2to0" >>
    @@ 375 :> << "_vector1", "_vec1to2", "_vec0to1" >>
    @@ 376 :> << "_vector2", "_vec2to0", "_vec1to2" >>
    @@ 377 :> << "_vec0to1", "_vec1to2", "_vec2to0" >>
    @@ 522 :> << "_vertex[0]", "_vertex[1]", "_vertex[2]" >>

\* setTriangle reads the first `step` of x, y, z, w of its three vectors
setTriangleReads(vecs, n) == UNION { Comp(vecs[k], n) : k \in 1..3 }

\* the components the statement at line l reads
Reads(l, i, n) ==
    IF l \in DOMAIN setTriangleCalls THEN setTriangleReads(setTriangleCalls[l], n)
    ELSE IF l \in DOMAIN VectorStatements THEN UNION { Vec(r) : r \in VectorStatements[l].reads }
    ELSE IF l \in IndexedLines THEN UNION { Vec(r) : r \in IndexedStatement(l, i).reads }
    ELSE IF l = 182 THEN Vec("_vector0") \cup Vec("_vector1") \cup Vec("_vector2")
    ELSE {}

\* the same with `_center.copy(...)` of line 262 left out
WritesNoCenter(l, i) ==
    IF l \in DOMAIN VectorStatements
    THEN UNION { Vec(r) : r \in IF l = 262 THEN {} ELSE VectorStatements[l].writes }
    ELSE IF l \in IndexedLines THEN UNION { Vec(r) : r \in IndexedStatement(l, i).writes }
    ELSE IF l = 182 THEN TriangleCorners
    ELSE {}

\* the components the statement at line l writes; _triangle.set(...) of line
\* 182 copies into the corners, which getArea() then reads
Writes(l, i) ==
    IF l \in DOMAIN VectorStatements THEN UNION { Vec(r) : r \in VectorStatements[l].writes }
    ELSE IF l \in IndexedLines THEN UNION { Vec(r) : r \in IndexedStatement(l, i).writes }
    ELSE IF l = 182 THEN TriangleCorners
    ELSE {}

\* the lines that can follow line l, whatever the data: a condition on the
\* mesh (zero area, edge counts, edge lengths, table look-ups, loop bounds
\* on the vertex count) goes both ways
Flow ==
    \* edgeSplit, Edges: for each triangle (171); zero area continues (184);
    \* calcNormal (190, 585-587); for each of the six hashes (205, 210-213)
       171 :> {173, 222}
    @@ 173 :> {174} @@ 174 :> {175} @@ 175 :> {176} @@ 176 :> {177}
    @@ 177 :> {178} @@ 178 :> {179} @@ 179 :> {182} @@ 182 :> {184}
    @@ 184 :> {171, 190}
    @@ 190 :> {585} @@ 585 :> {586} @@ 586 :> {587} @@ 587 :> {191}
    @@ 191 :> {205}
    @@ 205 :> {210, 218}
    @@ 210 :> {205, 211, 212, 213}
    @@ 211 :> {205} @@ 212 :> {205} @@ 213 :> {205}
    @@ 218 :> {171}
    \* edgeSplit, Build Geometry: for each triangle (231), the case table
    @@ 231 :> {234, 320}
    @@ 234 :> {235} @@ 235 :> {236} @@ 236 :> {250}
    @@ 250 :> {251, 260}
    @@ 251 :> {231}
    @@ 260 :> {262, 278}
    @@ 262 :> {263}
    @@ 263 :> {264, 268}
    @@ 264 :> {265} @@ 265 :> {266} @@ 266 :> {270}
    @@ 268 :> {270}
    @@ 270 :> {271, 275}
    @@ 271 :> {272} @@ 272 :> {273} @@ 273 :> {231}
    @@ 275 :> {231}
    @@ 278 :> {279, 295}
    @@ 279 :> {280}
    @@ 280 :> {281, 285}
    @@ 281 :> {282} @@ 282 :> {283} @@ 283 :> {287}
    @@ 285 :> {287}
    @@ 287 :> {288, 292}
    @@ 288 :> {289} @@ 289 :> {290} @@ 290 :> {231}
    @@ 292 :> {231}
    @@ 295 :> {296, 313}
    @@ 296 :> {297}
    @@ 297 :> {298, 302}
    @@ 298 :> {299} @@ 299 :> {300} @@ 300 :> {304}
    @@ 302 :> {304}
    @@ 304 :> {305, 309}
    @@ 305 :> {306} @@ 306 :> {307} @@ 307 :> {231}
    @@ 309 :> {231}
    @@ 313 :> {231}
    @@ 320 :> {222}
    \* flat: for each triangle (361)
    @@ 361 :> {364, 380}
    @@ 364 :> {365} @@ 365 :> {366} @@ 366 :> {369}
    @@ 369 :> {370} @@ 370 :> {371} @@ 371 :> {374}
    @@ 374 :> {375} @@ 375 :> {376} @@ 376 :> {377} @@ 377 :> {361}
    @@ 380 :> {352}
    \* smooth, Existing Vertex Hashes: for each triangle (412); the corners
    \* (419-431) are CornerFlow's; neighbours (434), midpoints (444-449)
    @@ 412 :> {413, 456}
    @@ 413 :> {414} @@ 414 :> {415} @@ 415 :> {419}
    @@ 421 :> {425} @@ 425 :> {427} @@ 427 :> {419}
    @@ 434 :> {444}
    @@ 444 :> {445} @@ 445 :> {446} @@ 446 :> {447}
    @@ 447 :> {448} @@ 448 :> {449} @@ 449 :> {412}
    \* smooth, Build Geometry: for each flat triangle (466); uv kept (469) or
    \* weighted (474); against the neighbours (483-504) or the opposites
    \* (506-517) or neither
    @@ 466 :> {468, 525}
    @@ 468 :> {469, 474}
    @@ 470 :> {469}
    @@ 475 :> {476} @@ 476 :> {478} @@ 478 :> {483}
    @@ 483 :> {497, 506}
    @@ 497 :> {499}
    @@ 499 :> {500, 519}
    @@ 500 :> {501} @@ 501 :> {502} @@ 502 :> {499}
    @@ 506 :> {510, 519}
    @@ 510 :> {512}
    @@ 512 :> {513, 519}
    @@ 513 :> {514} @@ 514 :> {515} @@ 515 :> {512}
    @@ 519 :> {474}
    @@ 522 :> {466}
    @@ 525 :> {456}

\* `for (let v = 0; v < 3; v++)`: the loop's first line and the line after it
CornerLoops == 419 :> <<421, 434>> @@ 469 :> <<470, 522>> @@ 474 :> <<475, 522>>

\* the lines that end a round of a corner loop (v++)
CornerRounds == {427, 470, 519}

\* the lines that start one (v = 0)
CornerStarts == {415, 468}

\* attributeList.forEach: the first line of the callback's triangle loop and
\* the line after the forEach
AttributeLoops == 222 :> <<231, 331>> @@ 352 :> <<361, 384>> @@ 456 :> <<466, 530>>

\* the lines a pass returns from
Returns == {331, 384, 530}

\* where a pass starts touching the scratch objects; smooth first calls flat
\* (line 398) and goes on at line 412
Entry == [ pass \in {"edgeSplit", "flat", "smooth"} |->
             IF pass = "edgeSplit" THEN 171 ELSE 352 ]

ReturnTo == [ pass \in {"edgeSplit", "flat", "smooth"} |-> IF pass = "smooth" THEN 412 ELSE 0 ]

\* the itemSize of the attributes a mesh carries
ItemSizes == { ItemSize(name) : name \in AllAttributes }

\* a pass is entered: nothing written yet by this pass
EnterPass(pass) ==
    /\ line = 0
    /\ entered < MaxCalls
    /\ line' = Entry[pass]
    /\ returnTo' = ReturnTo[pass]
    /\ assigned' = {}
    /\ entered' = entered + 1
    /\ itemStep' = 0
    /\ vIndex' = 0
    /\ UNCHANGED <<heap, pc, op, arg, result, log, input0>>

\* attributeList.forEach: the callback runs for an attribute, or the list ends
NextAttribute ==
    /\ line \in DOMAIN AttributeLoops
    /\ \/ \E n \in ItemSizes : itemStep' = n /\ line' = AttributeLoops[line][1]
       \/ itemStep' = itemStep /\ line' = AttributeLoops[line][2]
    /\ UNCHANGED <<assigned, vIndex, returnTo, entered>>
    /\ UNCHANGED <<heap, pc, op, arg, result, log, input0>>

\* the head of a corner loop
CornerLoop ==
    /\ line \in DOMAIN CornerLoops
    /\ line' = IF vIndex < 3 THEN CornerLoops[line][1] ELSE CornerLoops[line][2]
    /\ UNCHANGED <<assigned, itemStep, vIndex, returnTo, entered>>
    /\ UNCHANGED <<heap, pc, op, arg, result, log, input0>>

\* the statement at `line` executes
Execute ==
    /\ line \in DOMAIN Flow
    /\ assigned' = assigned \cup Writes(line, vIndex)
    /\ vIndex' = IF line \in CornerRounds THEN vIndex + 1
                 ELSE IF line \in CornerStarts THEN 0 ELSE vIndex
    /\ \E n \in Flow[line] : line' = n
    /\ UNCHANGED <<itemStep, returnTo, entered>>
    /\ UNCHANGED <<heap, pc, op, arg, result, log, input0>>

\* a pass returns: to smooth after its flat (line 398), else to the caller
ReturnPass ==
    /\ line \in Returns
    /\ line' = IF line = 384 THEN returnTo ELSE 0
    /\ returnTo' = 0
    /\ assigned' = IF line = 384 /\ returnTo # 0 THEN {} ELSE assigned
    /\ UNCHANGED <<itemStep, vIndex, entered>>
    /\ UNCHANGED <<heap, pc, op, arg, result, log, input0>>

ScratchInit ==
    /\ heap = << >>
    /\ pc = "idle"
    /\ op = "none"
    /\ arg = NoArg
    /\ result = 0
    /\ log = << >>
    /\ input0 = << >>
    /\ Untouched

ScratchNext ==
    \/ \E pass \in {"edgeSplit", "flat", "smooth"} : EnterPass(pass)
    \/ NextAttribute
    \/ CornerLoop
    \/ Execute
    \/ ReturnPass

ScratchSpec == ScratchInit /\ [][ScratchNext]_vars

\* the components the statement about to execute reads that no statement of
\* the running pass has written: values left by the constructor or by an
\* earlier pass or call
ReadsLeftOver == (Reads(line, vIndex, itemStep) \cap Constructed) \ assigned

\* C26: statelessness.  Every scratch value is written before it is read:
\* no statement of edgeSplit, flat or smooth reads a component of a
\* module-level scratch object that the same pass has not written before, so
\* no pass or call sees what an earlier one left there.
C26_WrittenBeforeRead == ReadsLeftOver = {}

\* a second call, about to emit a sub-triangle from _center and _midpoint,
\* which the first call has left written too
C26_Witness ==
    /\ entered = 2
    /\ line = 265
    /\ {"_center", "_midpoint"} \subseteq { p[1] : p \in assigned }

-----------------------------------------------------------------------------
(* The size of the output of edgeSplit *)

\* s: the number of edges of triangle t that are shared
SharedEdges(g, t) == Cardinality({ e \in 0..2 : SharedWithOther(g, <<t, e>>) })

\* the sum of 1 + s over the triangles with area among the first n
RECURSIVE SplitSize(_, _)
SplitSize(g, n) ==
    IF n = 0 THEN 0
    ELSE SplitSize(g, n - 1) + (IF ZeroArea(g, n - 1) THEN 0 ELSE 1 + SharedEdges(g, n - 1))

\* every triangle with area gave 1 + s sub-triangles, and the output has as
\* many triangles as that makes
SplitSizes(patterns, g, out) ==
    /\ \A t \in 0..(TriangleCount(g) - 1) :
         ~ZeroArea(g, t) => Len(patterns[t + 1]) = 1 + SharedEdges(g, t)
    /\ TriangleCount(out) = SplitSize(g, TriangleCount(g))

\* C27: edgeSplit emits exactly 1 + s sub-triangles for each non-degenerate
\* input triangle, where s in 0..3 is the number of its edges that are
\* shared, and its output has the sum of 1 + s over the non-degenerate input
\* triangles as its triangle count.
C27_SplitSize ==
    (Returned("edgeSplit") /\ Valid(input0))
        => SplitSizes(SplitPatterns(Soup(input0)), Soup(input0), heap[result])

-----------------------------------------------------------------------------
(* The geometry of the sub-triangles of edgeSplit and flat *)

\* half of the grid of the input coordinates: the midpoints of one pass lie on it
HalfGrid == GridUnit \div 2

\* a position in units of HalfGrid
OnHalfGrid(p) == << p[1] \div HalfGrid, p[2] \div HalfGrid, p[3] \div HalfGrid >>

\* (b - a) x (c - a) of triangle t of g: normal to the triangle on the side
\* its winding faces, of length twice its area
AreaVector(g, t) ==
    LET a == OnHalfGrid(PositionOf(g, 3 * t))
        b == OnHalfGrid(PositionOf(g, 3 * t + 1))
        c == OnHalfGrid(PositionOf(g, 3 * t + 2))
    IN Cross(VSub(b, a), VSub(c, a))

\* the same of sub-triangle i of a pattern of point codes laid on triangle t
PatternAreaVector(g, t, pattern, i) ==
    LET a == OnHalfGrid(CornerOrMid(g.attributes["position"], t, pattern[i][1]))
        b == OnHalfGrid(CornerOrMid(g.attributes["position"], t, pattern[i][2]))
        c == OnHalfGrid(CornerOrMid(g.attributes["position"], t, pattern[i][3]))
    IN Cross(VSub(b, a), VSub(c, a))

RECURSIVE PatternAreaVectorSum(_, _, _, _)
PatternAreaVectorSum(g, t, pattern, n) ==
    IF n = 0 THEN <<0, 0, 0>>
    ELSE VAdd(PatternAreaVector(g, t, pattern, n), PatternAreaVectorSum(g, t, pattern, n - 1))

\* the sum of the area vectors of the triangles subs of g
RECURSIVE AreaVectorSum(_, _)
AreaVectorSum(g, subs) ==
    IF subs = {} THEN <<0, 0, 0>>
    ELSE LET s == CHOOSE x \in subs : TRUE
         IN VAdd(AreaVector(g, s), AreaVectorSum(g, subs \ {s}))

\* n is a positive multiple of m, by a ratio of numbers up to 4: the same
\* direction, so the same plane and the same winding
SameWinding(n, m) ==
    \E p \in 1..4, q \in 1..4 : \A c \in 1..3 : q * n[c] = p * m[c]

\* the triangles subs of out tile triangle t of g: each has its winding, and
\* their areas add up to its area (area vectors of one direction add up to
\* the area vector of the triangle)
Tiles(g, t, out, subs) ==
    /\ \A v \in 0..2 : \A c \in 1..3 : PositionOf(g, 3 * t + v)[c] % GridUnit = 0
    /\ \A s \in subs : \A v \in 0..2 : \A c \in 1..3 : PositionOf(out, 3 * s + v)[c] % HalfGrid = 0
    /\ \A s \in subs : SameWinding(AreaVector(out, s), AreaVector(g, t))
    /\ AreaVectorSum(out, subs) = AreaVector(g, t)

\* the sub-triangles of a pattern tile triangle t of g
PatternTiles(g, t, pattern) ==
    /\ \A i \in 1..Len(pattern) :
         SameWinding(PatternAreaVector(g, t, pattern, i), AreaVector(g, t))
    /\ PatternAreaVectorSum(g, t, pattern, Len(pattern)) = AreaVector(g, t)

\* the edge counts and the edge lengths that tell the branches of the case
\* table apart: shared or not, and every order of three lengths
BranchCounts == 1..2
BranchLengths == 1..3

\* whatever its edge counts and edge lengths are, the sub-triangles the case
\* table has for a triangle with area tile it
EveryBranchTiles(g) ==
    \A t \in 0..(TriangleCount(g) - 1) :
        ~ZeroArea(g, t) =>
            \A n \in BranchCounts \X BranchCounts \X BranchCounts,
               l \in BranchLengths \X BranchLengths \X BranchLengths :
                PatternTiles(g, t, SplitPattern(n[1], n[2], n[3], l[1], l[2], l[3]))

\* edgeSplit: the sub-triangles of every triangle with area tile it
SplitTiles(patterns, g, out) ==
    \A t \in 0..(TriangleCount(g) - 1) :
        ~ZeroArea(g, t) => Tiles(g, t, out, SubTriangles(patterns, t))

\* flat: the four sub-triangles of every triangle tile it
FlatTiles(g, out) ==
    \A t \in 0..(TriangleCount(g) - 1) :
        Tiles(g, t, out, { flatNewTriangles * t + i : i \in 0..(flatNewTriangles - 1) })

\* C28: edgeSplit and flat preserve geometry.  For every input triangle the
\* sub-triangles emitted for it all have the winding of the input triangle
\* and their areas sum to its area, in every branch of the shared-edge case
\* table of edgeSplit and in flat.
C28_Tiling ==
    /\ (Returned("edgeSplit") /\ Valid(input0))
         => SplitTiles(SplitPatterns(Soup(input0)), Soup(input0), heap[result])
    /\ (Returned("edgeSplit") /\ Valid(input0)) => EveryBranchTiles(Soup(input0))
    /\ (Returned("flat") /\ Valid(input0))
         => FlatTiles(Soup(input0), heap[result])

\* edgeSplit cut a triangle with one shared edge in two and its neighbour,
\* which has another primary edge, likewise
C28_Witness ==
    /\ Returned("edgeSplit") /\ Valid(input0)
    /\ TriangleCount(input0) = 2
    /\ Len(SplitPatterns(Soup(input0))[1]) = 2
    /\ Len(SplitPatterns(Soup(input0))[2]) = 2
    /\ PrimaryEdges(SplitPatterns(Soup(input0))[1]) # PrimaryEdges(SplitPatterns(Soup(input0))[2])

-----------------------------------------------------------------------------
(* The tables of smooth *)

\* the position hashes of the vertices of the quadrisected mesh
FlatPositionHashes(flatMesh) ==
    { hashFromVector(PositionOf(flatMesh, m)) : m \in 0..(3 * TriangleCount(flatMesh) - 1) }

\* hashToIndex[key][0] is a vertex of `existing` for every key of a set
Indexed(tables, existing, keys) ==
    \A key \in keys :
        /\ key \in DOMAIN tables.hashToIndex
        /\ tables.hashToIndex[key] \in 0..(Count(existing.attributes["position"]) - 1)

\* no neighbour set is empty, and every key of a neighbour set or of an
\* opposite set has an index of a vertex of `existing`
TablesSound(tables, existing) ==
    /\ \A h \in DOMAIN tables.existingNeighbors :
         /\ Cardinality(tables.existingNeighbors[h]) >= 1
         /\ Indexed(tables, existing, tables.existingNeighbors[h])
    /\ \A h \in DOMAIN tables.flatOpposites :
         Indexed(tables, existing, tables.flatOpposites[h])

\* C29: in smooth every neighbour set a vertex resolves against is non-empty
\* (k >= 1, so beta is never 1 / 0), and every key stored in a neighbour set
\* or an opposite set has an entry in the hash-to-index table, which is the
\* index of a vertex, so no look-up of a neighbour's or an opposite's value
\* reads an undefined index.
C29_TablesSound ==
    (Returned("smooth") /\ Valid(input0))
        => TablesSound(SmoothTables(Soup(input0)), Soup(input0))

\* smooth ran on two triangles: a vertex of the quadrisected mesh resolved
\* against a neighbour set, another against an opposite set of two
C29_Witness ==
    /\ Returned("smooth") /\ Valid(input0)
    /\ TriangleCount(input0) = 2
    /\ \E h \in FlatPositionHashes(FlatOf(Soup(input0))) :
         h \in DOMAIN SmoothTables(Soup(input0)).existingNeighbors
    /\ \E h \in FlatPositionHashes(FlatOf(Soup(input0))) :
         /\ h \notin DOMAIN SmoothTables(Soup(input0)).existingNeighbors
         /\ h \in DOMAIN SmoothTables(Soup(input0)).flatOpposites
         /\ Cardinality(SmoothTables(Soup(input0)).flatOpposites[h]) = 2

====
